---- MODULE Spec2Model ----
(***************************************************************************)
(* Model of the Gaist runtime: the Scope chain (scope.ts) and the Runtime  *)
(* evaluator (runtime.ts).  Statements are executed one evaluateStmt       *)
(* invocation per step; the control stack holds the statement lists that   *)
(* the enclosing forEach loops still have to execute.                      *)
(***************************************************************************)
EXTENDS Integers, Sequences, FiniteSets, TLC

\* ------------------------------------------------------------------------
\* Bounds of the model
\* ------------------------------------------------------------------------
MaxVersion == 2
MaxBatchDepth == 2
MaxCalls == 1

\* ------------------------------------------------------------------------
\* Literal values (grammar.ts: Literal = number | string | boolean).
\* A number is the rational n/d in lowest terms with d > 0.
\* ------------------------------------------------------------------------
Num(k) == [t |-> "number", n |-> k, d |-> 1, s |-> "", b |-> FALSE]
Str(x) == [t |-> "string", n |-> 0, d |-> 1, s |-> x, b |-> FALSE]
Bool(x) == [t |-> "boolean", n |-> 0, d |-> 1, s |-> "", b |-> x]
\* what a property lookup yields for a name no object defines
Undefined == [t |-> "undefined", n |-> 0, d |-> 1, s |-> "", b |-> FALSE]
\* what a property lookup yields for a name inherited from Object.prototype
ProtoFn == [t |-> "function", n |-> 0, d |-> 1, s |-> "", b |-> FALSE]

Abs(k) == IF k < 0 THEN -k ELSE k

RECURSIVE Gcd(_, _)
Gcd(a, b) == IF b = 0 THEN a ELSE Gcd(b, a % b)

Rat(p, q) ==
  LET sg == IF q < 0 THEN -1 ELSE 1
      g == Gcd(Abs(p), Abs(q))
  IN [t |-> "number", n |-> (sg * p) \div g, d |-> (sg * q) \div g, s |-> "", b |-> FALSE]

\* typeof value
TypeOf(v) == v.t

\* a condition that is true for every value but the boolean false
Truthy_OnlyFalseIsFalse(v) == ~(v.t = "boolean" /\ ~v.b)

\* JavaScript truthiness of a value (used by `if (cond)`)
Truthy(v) ==
  CASE v.t = "boolean" -> v.b
    [] v.t = "number" -> v.n # 0
    [] v.t = "string" -> v.s # ""
    [] v.t = "function" -> TRUE
    [] OTHER -> FALSE

\* ------------------------------------------------------------------------
\* Names.  ProtoNames are the property names every plain object inherits,
\* for which `name in obj` is true although obj has no own property.
\* ------------------------------------------------------------------------
StateNames == {"count", "isOn"}
ProtoNames == {"toString"}
Names == StateNames \cup ProtoNames \cup {"p", "q", "tmp", "foo"}

\* an object without own properties ({}), as a total map to Undefined
EmptyVars == [x \in Names |-> Undefined]

\* own property test, and the `name in obj` test (own or inherited)
HasOwn(obj, name) == obj[name] # Undefined
In(obj, name) == HasOwn(obj, name) \/ name \in ProtoNames
\* obj[name]
Lookup(obj, name) ==
  IF HasOwn(obj, name) THEN obj[name]
  ELSE IF name \in ProtoNames THEN ProtoFn ELSE Undefined
\* Object.keys(obj) / the keys copied by { ...obj }
OwnKeys(obj) == {x \in Names : HasOwn(obj, x)}

\* ------------------------------------------------------------------------
\* AST (grammar.ts)
\* ------------------------------------------------------------------------
Lit(v) == [kind |-> "literal", value |-> v]
Var(x) == [kind |-> "var", name |-> x]
Bin(o, l, r) == [kind |-> "binary", op |-> o, left |-> l, right |-> r]
CallE(f, a) == [kind |-> "call", func |-> f, args |-> a]

Assign(x, e) == [kind |-> "assign", target |-> x, expr |-> e]
CallS(f, a) == [kind |-> "call", func |-> f, args |-> a]
If(c, th) == [kind |-> "if", cond |-> c, then |-> th, hasElse |-> FALSE, else |-> <<>>]
IfElse(c, th, el) == [kind |-> "if", cond |-> c, then |-> th, hasElse |-> TRUE, else |-> el]

Func(f, ps, b) == [name |-> f, params |-> ps, body |-> b]

\* ------------------------------------------------------------------------
\* Scope chain (scope.ts).  scopes is a sequence of Scope objects, scope 1
\* is the root; parent = 0 stands for "no parent".
\* ------------------------------------------------------------------------
NewScope(vs, par) ==
  [vars |-> vs, parent |-> par, version |-> 0, batchDepth |-> 0,
   pendingNotification |-> FALSE]

\* a has() that looks at the scope's own variables only
ScopeHas_OwnOnly(scs, sid, name) == In(scs[sid].vars, name)

\* Scope.has
RECURSIVE ScopeHas(_, _, _)
ScopeHas(scs, sid, name) ==
  IF In(scs[sid].vars, name) THEN TRUE
  ELSE IF scs[sid].parent # 0 THEN ScopeHas(scs, scs[sid].parent, name)
  ELSE FALSE

\* Scope.get: err = "" and the value, or the ScopeException
RECURSIVE ScopeGet(_, _, _)
ScopeGet(scs, sid, name) ==
  IF In(scs[sid].vars, name) THEN [err |-> "", val |-> Lookup(scs[sid].vars, name)]
  ELSE IF scs[sid].parent # 0 THEN ScopeGet(scs, scs[sid].parent, name)
  ELSE [err |-> "ScopeException", val |-> Undefined]

\* ------------------------------------------------------------------------
\* Expression evaluation (runtime.ts)
\* ------------------------------------------------------------------------
Ok(v) == [err |-> "", val |-> v]
Throw(e) == [err |-> e, val |-> Undefined]

NumLess(a, b) == a.n * b.d < b.n * a.d

\* length of the strings the model uses (value.length)
StrLen(x) ==
  CASE x = "" -> 0
    [] x = "a" -> 1
    [] x = "big" -> 3
    [] x = "[object Undefined]" -> 18
    [] OTHER -> 2

RECURSIVE MinOf(_, _)
MinOf(args, i) ==
  IF i = Len(args) THEN args[i]
  ELSE LET m == MinOf(args, i + 1) IN IF NumLess(m, args[i]) THEN m ELSE args[i]

RECURSIVE MaxOf(_, _)
MaxOf(args, i) ==
  IF i = Len(args) THEN args[i]
  ELSE LET m == MaxOf(args, i + 1) IN IF NumLess(args[i], m) THEN m ELSE args[i]

AllNumbers(args) == \A i \in 1..Len(args) : TypeOf(args[i]) = "number"

\* the deterministic entries of BUILTIN_FUNCTIONS
DetBuiltins == {"min", "max", "abs", "floor", "ceil", "round", "len"}
\* Object.keys(BUILTIN_FUNCTIONS): with the entries that draw from
\* Math.random()
BuiltinNames == DetBuiltins \cup {"rand", "randInt"}

\* a number drawn with Math.random(): a number whose value is not tracked
RandomNumber == [t |-> "number", n |-> 0, d |-> 1, s |-> "Math.random()", b |-> FALSE]

Builtin(f, args) ==
  CASE f \in {"min", "max"} ->
         IF Len(args) < 2 THEN Throw("FunctionError")
         ELSE IF ~AllNumbers(args) THEN Throw("FunctionError")
         ELSE Ok(IF f = "min" THEN MinOf(args, 1) ELSE MaxOf(args, 1))
    [] f \in {"abs", "floor", "ceil", "round"} ->
         IF Len(args) # 1 THEN Throw("FunctionError")
         ELSE IF TypeOf(args[1]) # "number" THEN Throw("FunctionError")
         ELSE LET v == args[1] IN
              Ok(CASE f = "abs" -> Rat(Abs(v.n), v.d)
                   [] f = "floor" -> Num(v.n \div v.d)
                   [] f = "ceil" -> Num(-((-v.n) \div v.d))
                   [] OTHER -> Num((2 * v.n + v.d) \div (2 * v.d)))
    [] f = "len" ->
         IF Len(args) # 1 THEN Throw("FunctionError")
         ELSE IF TypeOf(args[1]) # "string" THEN Throw("FunctionError")
         ELSE Ok(Num(StrLen(args[1].s)))
    [] f = "rand" ->
         IF Len(args) # 0 THEN Throw("FunctionError") ELSE Ok(RandomNumber)
    [] f = "randInt" ->
         IF Len(args) # 2 THEN Throw("FunctionError")
         ELSE IF ~AllNumbers(args) THEN Throw("FunctionError")
         ELSE Ok(RandomNumber)
    [] OTHER -> Throw("FunctionError")

\* a registry that holds its own entries only
BuiltinLookup_OwnOnly(f) ==
  IF f \in BuiltinNames THEN "own" ELSE "undefined"

\* BUILTIN_FUNCTIONS[expr.func], a property lookup on a plain object: an
\* entry of the registry, a function inherited from Object.prototype, or
\* undefined
BuiltinLookup(f) ==
  IF f \in BuiltinNames THEN "own"
  ELSE IF f \in ProtoNames THEN "inherited" ELSE "undefined"

\* builtin(args) for the inherited function toString: called with no
\* receiver, Object.prototype.toString yields "[object Undefined]"
InheritedCall(f, args) == Ok(Str("[object Undefined]"))

\* a check of the left operand only
CheckTypes_LeftOnly(l, r, type) == TypeOf(l) = type

\* checkType(left, type); checkType(right, type)
CheckTypes(l, r, type) == TypeOf(l) = type /\ TypeOf(r) = type

\* left / right without the `right === 0` test: Infinity, -Infinity or NaN
\* (a number that is no quotient: d = 0)
Divide_NoZeroCheck(l, r) ==
  IF r.n = 0
  THEN Ok([t |-> "number", n |-> IF l.n > 0 THEN 1 ELSE IF l.n < 0 THEN -1 ELSE 0,
           d |-> 0, s |-> "", b |-> FALSE])
  ELSE Ok(Rat(l.n * r.d, l.d * r.n))

\* if (right === 0) throw new ExpressionError(...); return left / right
Divide(l, r) ==
  IF r.n = 0 THEN Throw("ExpressionError")
  ELSE Ok(Rat(l.n * r.d, l.d * r.n))

BinaryOp(op, l, r) ==
  CASE op \in {"+", "-", "*"} ->
         IF ~CheckTypes(l, r, "number") THEN Throw("TypeError")
         ELSE Ok(CASE op = "+" -> Rat(l.n * r.d + r.n * l.d, l.d * r.d)
                   [] op = "-" -> Rat(l.n * r.d - r.n * l.d, l.d * r.d)
                   [] OTHER -> Rat(l.n * r.n, l.d * r.d))
    [] op = "/" ->
         IF ~CheckTypes(l, r, "number") THEN Throw("TypeError")
         ELSE Divide(l, r)
    [] op = "==" -> Ok(Bool(l = r))
    [] op = "!=" -> Ok(Bool(l # r))
    [] op \in {"&&", "||"} ->
         IF ~CheckTypes(l, r, "boolean") THEN Throw("TypeError")
         ELSE Ok(Bool(IF op = "&&" THEN l.b /\ r.b ELSE l.b \/ r.b))
    [] op \in {"<", "<=", ">", ">="} ->
         IF ~CheckTypes(l, r, "number") THEN Throw("TypeError")
         ELSE Ok(Bool(CASE op = "<" -> NumLess(l, r)
                        [] op = "<=" -> ~NumLess(r, l)
                        [] op = ">" -> NumLess(r, l)
                        [] OTHER -> ~NumLess(l, r)))
    [] OTHER -> Throw("ExpressionError")

\* && and || as JavaScript's own operators evaluate them: the right operand
\* only when the left one does not decide
EvaluatesRight_ShortCircuit(op, l) ==
  ~((op = "&&" /\ l = Bool(FALSE)) \/ (op = "||" /\ l = Bool(TRUE)))

\* `const right = helper(expr.right, scope)` stands before the switch over
\* expr.op: it is executed whatever the operator and the left value are
EvaluatesRight(op, l) == TRUE

RECURSIVE evaluateExpr(_, _, _)
RECURSIVE EvalArgs(_, _, _, _)
\* expr.args.map((arg) => helper(arg, scope)): the values, or the first error
EvalArgs(args, i, scs, sid) ==
  IF i > Len(args) THEN [err |-> "", vals |-> <<>>]
  ELSE LET a == evaluateExpr(args[i], scs, sid) IN
       IF a.err # "" THEN [err |-> a.err, vals |-> <<>>]
       ELSE LET rest == EvalArgs(args, i + 1, scs, sid) IN
            IF rest.err # "" THEN rest
            ELSE [err |-> "", vals |-> <<a.val>> \o rest.vals]

evaluateExpr(expr, scs, sid) ==
  CASE expr.kind = "literal" -> Ok(expr.value)
    [] expr.kind = "var" ->
         \* sid = 0: the scope is still undefined (state initialisers)
         IF sid = 0 THEN Throw("NativeTypeError") ELSE ScopeGet(scs, sid, expr.name)
    [] expr.kind = "call" ->
         IF BuiltinLookup(expr.func) # "undefined"
         THEN LET as == EvalArgs(expr.args, 1, scs, sid) IN
              IF as.err # "" THEN Throw(as.err)
              ELSE IF BuiltinLookup(expr.func) = "own"
                   THEN Builtin(expr.func, as.vals)
                   ELSE InheritedCall(expr.func, as.vals)
         ELSE Throw("FunctionError:notfound")
    [] expr.kind = "binary" ->
         LET l == evaluateExpr(expr.left, scs, sid) IN
         IF l.err # "" THEN l
         ELSE IF ~EvaluatesRight(expr.op, l.val) THEN l
         ELSE LET r == evaluateExpr(expr.right, scs, sid) IN
              IF r.err # "" THEN r
              ELSE BinaryOp(expr.op, l.val, r.val)
    [] OTHER -> Throw("ExpressionError")

\* ------------------------------------------------------------------------
\* Subscribers.  What a callback registered with onChange does when it is
\* invoked is fixed per callback: it returns or throws (which the try/catch
\* around the invocation makes the same), or it calls runtime.destroy().
\* ------------------------------------------------------------------------
Subs == {"s1", "d"}
\* further callbacks: one that throws, one that calls the unsubscribe
\* function onChange returned for it, one that returns
MoreSubs == {"t", "u", "r"}
Callbacks == Subs \cup MoreSubs
SubKind ==
  [x \in Callbacks |->
     CASE x = "d" -> "destroy"
       [] x = "t" -> "throw"
       [] x = "u" -> "unsubscribe"
       [] OTHER -> "return"]

\* ------------------------------------------------------------------------
\* The mutable objects an operation works on, as one record:
\*   scopes, changeListeners (in insertion order), isDestroyed, and calls,
\*   the number of invocations of every callback so far; and, of the
\*   operation under way, sets, the number of set calls that changed or
\*   created a value, thrown, whether a callback's exception escaped, and
\*   seen, what every callback invoked so far could read when it was called.
\* ------------------------------------------------------------------------
\* _assertNotDestroyed skipped
AssertNotDestroyed_Skip(w) == TRUE

\* an array push: the callback is appended also when it is in the list
SetAdd_Push(listeners, cb) == Append(listeners, cb)

\* Set.prototype.add of changeListeners (a Set<() => void>, kept here in
\* insertion order): a value that is in the set already is not added
SetAdd(listeners, cb) ==
  IF \E i \in 1..Len(listeners) : listeners[i] = cb
  THEN listeners ELSE Append(listeners, cb)

\* Runtime._assertNotDestroyed: TRUE when it returns, FALSE when it throws
AssertNotDestroyed(w) == ~w.isDestroyed

\* a destroy that flips the flag instead of setting it
DestroyW_Toggle(w) == [w EXCEPT !.isDestroyed = ~@, !.changeListeners = <<>>]

\* Runtime.destroy
DestroyW(w) == [w EXCEPT !.isDestroyed = TRUE, !.changeListeners = <<>>]

\* what runtime.getState() and runtime.stateVersion give a callback that
\* reads them while the objects are as w
Observation(w, cb) ==
  [cb |-> cb, state |-> w.scopes[1].vars, version |-> w.scopes[1].version]

\* callback(): what the call leaves behind and whether it threw
Invoke(w, cb) ==
  LET w1 == [w EXCEPT !.calls[cb] = @ + 1,
                      !.seen = Append(@, Observation(w, cb))] IN
  [threw |-> SubKind[cb] = "throw",
   w |-> CASE SubKind[cb] = "destroy" -> DestroyW(w1)
           [] SubKind[cb] = "unsubscribe" ->
                [w1 EXCEPT !.changeListeners = SelectSeq(@, LAMBDA x : x # cb)]
           [] OTHER -> w1]

\* the position forEach visits after the callback at position i of before:
\* an entry deleted while it is visited leaves its place to the next one
NextPosition(before, after, i) ==
  IF i <= Len(after) /\ after[i] = before[i] THEN i + 1 ELSE i

\* forEach without the try/catch: the first exception ends the loop
RECURSIVE Deliver_NoCatch(_, _)
Deliver_NoCatch(w, i) ==
  IF i > Len(w.changeListeners) THEN w
  ELSE LET r == Invoke(w, w.changeListeners[i]) IN
       IF r.threw THEN [r.w EXCEPT !.thrown = TRUE]
       ELSE Deliver_NoCatch(r.w, NextPosition(w.changeListeners, r.w.changeListeners, i))

\* a loop over positions that skips the entry following a deleted one
RECURSIVE Deliver_ByIndex(_, _)
Deliver_ByIndex(w, i) ==
  IF i > Len(w.changeListeners) THEN w
  ELSE Deliver_ByIndex(Invoke(w, w.changeListeners[i]).w, i + 1)

\* changeListeners.forEach(callback => try { callback() } catch ...), from
\* position i on; entries removed by delete() or clear() are not visited,
\* an exception is caught and the loop goes on
RECURSIVE Deliver(_, _)
Deliver(w, i) ==
  IF i > Len(w.changeListeners) THEN w
  ELSE LET r == Invoke(w, w.changeListeners[i]) IN
       Deliver(r.w, NextPosition(w.changeListeners, r.w.changeListeners, i))

\* _notifyChange without the `if (this._isDestroyed) return`
RuntimeNotifyChange_NoDestroyedCheck(w) == Deliver(w, 1)

\* Runtime._notifyChange
RuntimeNotifyChange(w) == IF w.isDestroyed THEN w ELSE Deliver(w, 1)

\* _notifyChange calling onChange before it counts the version
NotifyChange_CallbackFirst(w, sid) ==
  IF w.scopes[sid].batchDepth > 0
  THEN [w EXCEPT !.scopes[sid].pendingNotification = TRUE, !.sets = @ + 1]
  ELSE LET w1 == RuntimeNotifyChange([w EXCEPT !.sets = @ + 1]) IN
       [w1 EXCEPT !.scopes[sid].version = @ + 1]

\* Scope._notifyChange of scope sid; every scope's onChange is the
\* callback the Runtime gave the root scope
NotifyChange(w, sid) ==
  IF w.scopes[sid].batchDepth > 0
  THEN [w EXCEPT !.scopes[sid].pendingNotification = TRUE, !.sets = @ + 1]
  ELSE RuntimeNotifyChange([w EXCEPT !.scopes[sid].version = @ + 1, !.sets = @ + 1])

\* _possiblySet without the `oldValue === value` early return
RECURSIVE PossiblySet_NoEqualityCheck(_, _, _, _)
PossiblySet_NoEqualityCheck(w, sid, name, value) ==
  LET sc == w.scopes[sid] IN
  IF In(sc.vars, name)
  THEN [found |-> TRUE,
        w |-> NotifyChange([w EXCEPT !.scopes[sid].vars[name] = value], sid)]
  ELSE IF sc.parent # 0 THEN PossiblySet_NoEqualityCheck(w, sc.parent, name, value)
  ELSE [found |-> FALSE, w |-> w]

\* Scope._possiblySet: found tells whether name exists in sid or a parent
RECURSIVE PossiblySet(_, _, _, _)
PossiblySet(w, sid, name, value) ==
  LET sc == w.scopes[sid] IN
  IF In(sc.vars, name)
  THEN IF Lookup(sc.vars, name) = value
       THEN [found |-> TRUE, w |-> w]
       ELSE [found |-> TRUE,
             w |-> NotifyChange([w EXCEPT !.scopes[sid].vars[name] = value], sid)]
  ELSE IF sc.parent # 0 THEN PossiblySet(w, sc.parent, name, value)
  ELSE [found |-> FALSE, w |-> w]

\* set creating the missing variable in the root scope
ScopeSet_CreateInRoot(w, sid, name, value) ==
  LET r == PossiblySet(w, sid, name, value) IN
  IF r.found THEN [existed |-> TRUE, w |-> r.w]
  ELSE [existed |-> FALSE,
        w |-> NotifyChange([w EXCEPT !.scopes[1].vars[name] = value], 1)]

\* Scope.set: existed is the return value
ScopeSet(w, sid, name, value) ==
  LET r == PossiblySet(w, sid, name, value) IN
  IF r.found THEN [existed |-> TRUE, w |-> r.w]
  ELSE [existed |-> FALSE,
        w |-> NotifyChange([w EXCEPT !.scopes[sid].vars[name] = value], sid)]

\* Scope.extend: the child is appended to scopes
Extend(w, sid) == [w EXCEPT !.scopes = Append(@, NewScope(EmptyVars, sid))]

\* Scope.batch, entry: this._batchDepth++
BatchBegin(w, sid) == [w EXCEPT !.scopes[sid].batchDepth = @ + 1]

\* the finally block without the `_batchDepth === 0` test
BatchEnd_NoDepthCheck(w, sid) ==
  LET w1 == [w EXCEPT !.scopes[sid].batchDepth = @ - 1] IN
  IF w1.scopes[sid].pendingNotification
  THEN RuntimeNotifyChange([w1 EXCEPT !.scopes[sid].pendingNotification = FALSE,
                                      !.scopes[sid].version = @ + 1])
  ELSE w1

\* a finally block that does not look at _pendingNotification
BatchEnd_AlwaysNotify(w, sid) ==
  LET w1 == [w EXCEPT !.scopes[sid].batchDepth = @ - 1] IN
  IF w1.scopes[sid].batchDepth = 0
  THEN RuntimeNotifyChange([w1 EXCEPT !.scopes[sid].pendingNotification = FALSE,
                                      !.scopes[sid].version = @ + 1])
  ELSE w1

\* Scope.batch, the finally block
BatchEnd(w, sid) ==
  LET w1 == [w EXCEPT !.scopes[sid].batchDepth = @ - 1] IN
  IF w1.scopes[sid].batchDepth = 0 /\ w1.scopes[sid].pendingNotification
  THEN RuntimeNotifyChange([w1 EXCEPT !.scopes[sid].pendingNotification = FALSE,
                                      !.scopes[sid].version = @ + 1])
  ELSE w1

\* a batch without try/finally: nothing runs when fn throws
BatchUnwind_NoFinally(w, sid) == w

\* Scope.batch when fn throws: the finally block runs
BatchUnwind(w, sid) == BatchEnd(w, sid)

\* what batch(fn) completes with when fn completed with c and the finally
\* block left w: `try { return fn() } finally { ... }` completes as fn did
\* unless the finally block throws
BatchCompletion(c, w) ==
  IF w.thrown THEN [threw |-> TRUE, value |-> Undefined] ELSE c

\* for (const [name, value] of Object.entries(state)) if (name in known)
\* scope.set(name, value): entries is a sequence of <<name, value>>
RECURSIVE SetEntries(_, _, _, _)
SetEntries(w, entries, i, known) ==
  IF i > Len(entries) THEN w
  ELSE LET name == entries[i][1]
           w1 == IF In(known, name) THEN ScopeSet(w, 1, name, entries[i][2]).w ELSE w
       IN SetEntries(w1, entries, i + 1, known)

\* a loop that sets nothing
SetAll_Nothing(w, entries, i) == w

\* for (const [name, value] of Object.entries(snapshot))
\* if (name in this.vars) this.set(name, value), from entry i on
RECURSIVE RestoreEntries(_, _, _, _)
RestoreEntries(w, sid, entries, i) ==
  IF i > Len(entries) THEN w
  ELSE LET name == entries[i][1]
           w1 == IF In(w.scopes[sid].vars, name)
                 THEN ScopeSet(w, sid, name, entries[i][2]).w ELSE w
       IN RestoreEntries(w1, sid, entries, i + 1)

\* Scope.restoreSnapshot
restoreSnapshot(w, sid, snapshot) ==
  BatchEnd(RestoreEntries(BatchBegin(w, sid), sid, snapshot, 1), sid)

\* Scope.getSnapshot: { ...this.vars } is a new object (shared = FALSE)
\* holding the scope's own variables
getSnapshot(scs, sid) == [shared |-> FALSE, vars |-> scs[sid].vars]

\* the host assigns snap[name] = value on an object it got from scope sid:
\* the scope changes only if the object is the scope's own vars object
MutateSnapshot(w, sid, snap, name, value) ==
  IF snap.shared THEN [w EXCEPT !.scopes[sid].vars[name] = value] ELSE w

\* for (const [name, value] of Object.entries(initialVars))
\* scope.set(name, value)
RECURSIVE SetAll(_, _, _)
SetAll(w, entries, i) ==
  IF i > Len(entries) THEN w
  ELSE SetAll(ScopeSet(w, 1, entries[i][1], entries[i][2]).w, entries, i + 1)

\* ------------------------------------------------------------------------
\* The program
\* ------------------------------------------------------------------------
N0 == Lit(Num(0))
N1 == Lit(Num(1))
N2 == Lit(Num(2))

\* program.state.vars
StateVars ==
  << [name |-> "count", init |-> N0],
     [name |-> "isOn", init |-> Lit(Bool(FALSE))] >>

\* program.logic.funcs
Funcs ==
  << Func("inc", <<>>, <<Assign("count", Bin("+", Var("count"), N1))>>),
     Func("add", <<"p">>, <<Assign("count", Bin("+", Var("count"), Var("p")))>>),
     Func("toggle", <<>>,
          <<IfElse(Var("isOn"), <<Assign("isOn", Lit(Bool(FALSE)))>>,
                                <<Assign("isOn", Lit(Bool(TRUE)))>>)>>),
     Func("local", <<>>, <<Assign("tmp", N1), Assign("count", Var("tmp"))>>),
     Func("fail", <<>>,
          <<Assign("isOn", Lit(Bool(TRUE))), Assign("count", Var("q")),
            Assign("isOn", Lit(Bool(FALSE)))>>),
     Func("shadow", <<"count">>, <<Assign("isOn", Lit(Bool(TRUE)))>>),
     Func("two", <<"p", "count">>, <<Assign("isOn", Lit(Bool(TRUE)))>>),
     Func("outer", <<"p">>, <<CallS("inner", <<>>)>>),
     Func("inner", <<>>, <<Assign("count", Var("p"))>>),
     Func("noop", <<>>, <<>>),
     Func("rec", <<"p">>, <<Assign("count", Var("p")), CallS("rec", <<N0>>)>>),
     Func("pass", <<"p">>, <<CallS("add", <<Var("p")>>)>>),
     Func("ping", <<"p">>, <<CallS("pong", <<N1>>)>>),
     Func("pong", <<"q">>, <<CallS("ping", <<N2>>)>>),
     Func("via", <<"p">>, <<CallS("late", <<Bin("/", Var("p"), N0), N1>>)>>),
     Func("late", <<"q", "p">>, <<Assign("count", Var("q"))>>),
     Func("pick", <<"p", "q">>,
          <<IfElse(Var("p"), <<Assign("p", N1), Assign("tmp", Var("p"))>>,
                             <<Assign("tmp", N0)>>),
            Assign("count", Var("tmp"))>>) >>

\* the init blocks the model is run with (program.init): the block raises
\* in its second statement when isOn holds
InitPool ==
  { <<CallS("inc", <<>>), If(Var("isOn"), <<Assign("count", Var("q"))>>),
      Assign("isOn", Lit(Bool(FALSE)))>> }

\* config.initialState, as Object.entries
InitialStatePool ==
  { <<>>, << <<"isOn", Bool(TRUE)>>, <<"foo", Num(1)>> >> }

\* maps with a key every object inherits from Object.prototype, as
\* Object.entries (initialState, setState)
ProtoStatePool ==
  { << <<"count", Num(1)>>, <<"toString", Num(1)>> >> }

\* statements the host passes to evaluateStmt
StmtPool ==
  { Assign("count", N1),
    Assign("foo", N1),
    CallS("inc", <<>>),
    CallS("add", <<N1>>),
    CallS("add", <<>>),
    CallS("nosuch", <<>>),
    CallS("toggle", <<>>),
    CallS("local", <<>>),
    CallS("fail", <<>>),
    CallS("shadow", <<N1>>),
    CallS("two", <<N1, N2>>),
    CallS("two", <<Bin("/", N1, N0), N2>>),
    CallS("noop", <<>>),
    CallS("outer", <<N1>>),
    CallS("add", <<Bin("/", N1, N0), N1>>),
    CallS("nosuch", <<Var("q")>>),
    If(Var("isOn"), <<Assign("count", N0)>>),
    If(Var("isOn"), <<Assign("count", Bin("/", Var("count"), N0))>>) }

\* maps the host passes to setState, as Object.entries
StatePool ==
  { << <<"count", Num(1)>>, <<"isOn", Bool(TRUE)>> >>,
    << <<"count", Num(0)>>, <<"foo", Num(1)>> >> }

\* names and values the host passes to scope.set, on the root scope and on
\* a child scope
SetNames == {"count"}
ChildSetNames == {"count", "tmp", "toString"}
SetValues == {Num(0), Num(1)}

\* a lookup that falls back to the first function when none matches
RECURSIVE FindFunc_FirstIfMissing(_, _)
FindFunc_FirstIfMissing(name, i) ==
  IF i > Len(Funcs) THEN 1
  ELSE IF Funcs[i].name = name THEN i ELSE FindFunc_FirstIfMissing(name, i + 1)

\* this.program.logic.funcs.find((f) => f.name === name): index or 0
RECURSIVE FindFunc(_, _)
FindFunc(name, i) ==
  IF i > Len(Funcs) THEN 0
  ELSE IF Funcs[i].name = name THEN i ELSE FindFunc(name, i + 1)

\* a reduction that evaluates every initialiser in a scope holding the
\* variables before it
RECURSIVE InitialVarsOf_InScope(_, _)
InitialVarsOf_InScope(svs, i) ==
  IF i = 0 THEN [err |-> "", vars |-> EmptyVars]
  ELSE LET acc == InitialVarsOf_InScope(svs, i - 1) IN
       IF acc.err # "" THEN acc
       ELSE LET v == evaluateExpr(svs[i].init, <<NewScope(acc.vars, 0)>>, 1) IN
            IF v.err # "" THEN [err |-> v.err, vars |-> acc.vars]
            ELSE [err |-> "", vars |-> [acc.vars EXCEPT ![svs[i].name] = v.val]]

\* program.state.vars.reduce(...) over the first i variables of svs: every
\* initialiser is evaluated while this.scope is still undefined; the first
\* error ends the reduction
RECURSIVE InitialVarsOf(_, _)
InitialVarsOf(svs, i) ==
  IF i = 0 THEN [err |-> "", vars |-> EmptyVars]
  ELSE LET acc == InitialVarsOf(svs, i - 1) IN
       IF acc.err # "" THEN acc
       ELSE LET v == evaluateExpr(svs[i].init, <<>>, 0) IN
            IF v.err # "" THEN [err |-> v.err, vars |-> acc.vars]
            ELSE [err |-> "", vars |-> [acc.vars EXCEPT ![svs[i].name] = v.val]]

\* initialVars: every initialiser evaluated with no scope, in order
InitialVarsFrom(i) == InitialVarsOf(StateVars, i).vars
initialVars == InitialVarsFrom(Len(StateVars))

\* Object.entries(initialVars)
InitialEntries == [i \in 1..Len(StateVars) |->
                     <<StateVars[i].name, initialVars[StateVars[i].name]>>]

\* hydratedVars merged over initialVars (constructor)
RECURSIVE Hydrate(_, _, _)
Hydrate(vs, entries, i) ==
  IF i > Len(entries) THEN vs
  ELSE Hydrate(IF In(initialVars, entries[i][1])
               THEN [vs EXCEPT ![entries[i][1]] = entries[i][2]] ELSE vs,
               entries, i + 1)

\* the same merge for the initial values known of any program
RECURSIVE HydrateOver(_, _, _, _)
HydrateOver(known, vs, entries, i) ==
  IF i > Len(entries) THEN vs
  ELSE HydrateOver(known,
                   IF In(known, entries[i][1])
                   THEN [vs EXCEPT ![entries[i][1]] = entries[i][2]] ELSE vs,
                   entries, i + 1)

\* the Program object with the given parts
Program(svs, fs, ss) ==
  [state |-> [vars |-> svs], logic |-> [funcs |-> fs], init |-> ss]

\* new Runtime({program: cfg.program, initialState}): the error the
\* constructor raises, or the root scope it creates
Construct(cfg, initialState) ==
  LET iv == InitialVarsOf(cfg.program.state.vars, Len(cfg.program.state.vars)) IN
  IF iv.err # "" THEN [err |-> iv.err, scopes |-> <<>>]
  ELSE [err |-> "",
        scopes |-> <<NewScope(HydrateOver(iv.vars, iv.vars, initialState, 1), 0)>>]

\* this.program when the runtime keeps the object it was passed
OwnProgram_Shared(own, passed) == passed

\* this.program = JSON.parse(JSON.stringify(config.program)) is an object
\* of the runtime's own: it stays as it is (own) when the host has written
\* to its object, which is passed now
OwnProgram(own, passed) == own

\* no text, and the outcomes of a tokenize() and a parse() not made
NoSource == <<>>
NoTokens == [err |-> "none", line |-> 0, column |-> 0, tokens |-> <<>>, starts |-> <<>>]
NoProgram == [err |-> "none", pos |-> 0, val |-> <<>>]

\* ------------------------------------------------------------------------
\* State
\* ------------------------------------------------------------------------
VARIABLES
  scopes,           \* the Scope objects; scopes[1] is runtime.scope
  changeListeners,  \* Runtime.changeListeners, in insertion order
  hasRun,           \* Runtime._hasRun
  isDestroyed,      \* Runtime._isDestroyed
  init,             \* program.init
  stack,            \* statement lists still to execute, innermost first
  calls,            \* number of invocations of every callback
  config,           \* the config object the host passed to new Runtime:
                    \* config.program is the host's Program object
  source,           \* Tokenizer.source: the text the host compiles
  tokens,           \* what tokenize() gave: the tokens or the error
  parsed,           \* what parse() gave: the Program or the error
  last              \* the last operation of the host ("host" for those
                    \* that neither raise nor touch a scope): the error it
                    \* raised ("" = none), whether a nested evaluateStmt
                    \* raised it, whether it changed a root variable, the
                    \* value evaluateExpr returned to the host

compiler == <<source, tokens, parsed>>

vars == <<scopes, changeListeners, hasRun, isDestroyed, init, stack, calls, last,
          config, compiler>>

W == [scopes |-> scopes, changeListeners |-> changeListeners,
      isDestroyed |-> isDestroyed, calls |-> calls, sets |-> 0, thrown |-> FALSE,
      seen |-> <<>>]

Commit(w) ==
  /\ scopes' = w.scopes
  /\ changeListeners' = w.changeListeners
  /\ isDestroyed' = w.isDestroyed
  /\ calls' = w.calls

\* the record of an operation that leaves the objects as w
Last(op, err, nested, w) ==
  [op |-> op, err |-> err, nested |-> nested,
   changed |-> w.scopes[1].vars # scopes[1].vars, val |-> Undefined,
   seen |-> w.seen]

\* an open forEach loop: the statements it has still to execute, the scope
\* it passes to evaluateStmt, what it belongs to (the init block, a
\* function body, an if branch) and, for a body, the function's name
Frame(ss, sid, k) == [stmts |-> ss, scope |-> sid, kind |-> k, func |-> ""]

\* func.body.forEach((s) => this.evaluateStmt(s, newScope))
BodyFrame(fi, newSid) == [Frame(Funcs[fi].body, newSid, "body") EXCEPT !.func = Funcs[fi].name]

\* number of scopes created by the calls that are still executing
CallScopes(stk) == Cardinality({i \in 1..Len(stk) : stk[i].kind = "body"})

\* parameter binding without the `scope.has(p.name)` check
RECURSIVE BindParams_NoShadowCheck(_, _, _, _, _, _)
BindParams_NoShadowCheck(w, params, args, i, sid, newSid) ==
  IF i > Len(params) THEN [err |-> "", w |-> w]
  ELSE LET a == evaluateExpr(args[i], w.scopes, sid) IN
       IF a.err # "" THEN [err |-> a.err, w |-> w]
       ELSE BindParams_NoShadowCheck(ScopeSet(w, newSid, params[i], a.val).w,
                                     params, args, i + 1, sid, newSid)

\* func.params.forEach: shadowing check, then bind, from position i on
RECURSIVE BindParams(_, _, _, _, _, _)
BindParams(w, params, args, i, sid, newSid) ==
  IF i > Len(params) THEN [err |-> "", w |-> w]
  ELSE IF ScopeHas(w.scopes, sid, params[i])
       THEN [err |-> "FunctionError:shadow", w |-> w]
       ELSE LET a == evaluateExpr(args[i], w.scopes, sid) IN
            IF a.err # "" THEN [err |-> a.err, w |-> w]
            ELSE BindParams(ScopeSet(w, newSid, params[i], a.val).w,
                            params, args, i + 1, sid, newSid)

\* a statement that repeats its then branch while the condition holds
IfBranch_While(stmt, cond, sid) ==
  IF Truthy(cond) THEN <<Frame(stmt.then \o <<stmt>>, sid, "branch")>>
  ELSE IF stmt.hasElse THEN <<Frame(stmt.else, sid, "branch")>>
  ELSE <<>>

\* if (cond) stmt.then.forEach(...) else if (stmt.else)
\* stmt.else.forEach(...): the statement list the forEach executes, with
\* the scope of the if statement itself
IfBranch(stmt, cond, sid) ==
  IF Truthy(cond) THEN <<Frame(stmt.then, sid, "branch")>>
  ELSE IF stmt.hasElse THEN <<Frame(stmt.else, sid, "branch")>>
  ELSE <<>>

\* Runtime.evaluateStmt(stmt, scope), up to the nested evaluateStmt calls:
\* push is the statement list its forEach goes on to execute
evaluateStmt(w, stmt, sid) ==
  IF ~AssertNotDestroyed(w) THEN [err |-> "DESTROYED", w |-> w, push |-> <<>>]
  ELSE
  CASE stmt.kind = "assign" ->
         LET v == evaluateExpr(stmt.expr, w.scopes, sid) IN
         IF v.err # "" THEN [err |-> v.err, w |-> w, push |-> <<>>]
         ELSE [err |-> "", w |-> ScopeSet(w, sid, stmt.target, v.val).w, push |-> <<>>]
    [] stmt.kind = "call" ->
         LET fi == FindFunc(stmt.func, 1) IN
         IF fi = 0 THEN [err |-> "FunctionError:notfound", w |-> w, push |-> <<>>]
         ELSE IF Len(Funcs[fi].params) # Len(stmt.args)
         THEN [err |-> "FunctionError:arity", w |-> w, push |-> <<>>]
         ELSE LET w1 == Extend(w, sid)
                  newSid == Len(w1.scopes)
                  b == BindParams(w1, Funcs[fi].params, stmt.args, 1, sid, newSid)
              IN IF b.err # ""
                 THEN [err |-> b.err,
                       w |-> [b.w EXCEPT !.scopes = SubSeq(@, 1, newSid - 1)],
                       push |-> <<>>]
                 ELSE [err |-> "", w |-> b.w,
                       push |-> <<BodyFrame(fi, newSid)>>]
    [] stmt.kind = "if" ->
         LET c == evaluateExpr(stmt.cond, w.scopes, sid) IN
         IF c.err # "" THEN [err |-> c.err, w |-> w, push |-> <<>>]
         ELSE [err |-> "", w |-> w, push |-> IfBranch(stmt, c.val, sid)]
    [] OTHER -> [err |-> "", w |-> w, push |-> <<>>]

\* the loops whose statement list is exhausted return: a call drops its
\* scope, run() sets _hasRun
RECURSIVE Return(_, _, _)
Return(stk, scs, ran) ==
  IF stk = <<>> \/ Head(stk).stmts # <<>> THEN [stack |-> stk, scopes |-> scs, hasRun |-> ran]
  ELSE Return(Tail(stk),
              IF Head(stk).kind = "body" THEN SubSeq(scs, 1, Len(scs) - 1) ELSE scs,
              IF Head(stk).kind = "init" THEN TRUE ELSE ran)

\* an error that is swallowed: the open loops go on with their next
\* statement
Finish_Continue(r, rest, nested) ==
  LET op == IF nested THEN last.op ELSE "evaluateStmt"
      before == nested /\ last.changed
      n == Return(r.push \o rest, r.w.scopes, hasRun)
  IN /\ Commit([r.w EXCEPT !.scopes = n.scopes])
     /\ stack' = n.stack
     /\ hasRun' = n.hasRun
     /\ last' = [Last(op, r.err, nested /\ r.err # "", r.w) EXCEPT !.changed = @ \/ before]

\* the effect of one evaluateStmt invocation r made with the loops rest
\* still open (nested: by one of these loops, else by the host): on an
\* error every open loop is abandoned
Finish(r, rest, nested) ==
  LET op == IF nested THEN last.op ELSE "evaluateStmt"
      before == nested /\ last.changed
  IN
  IF r.err # ""
  THEN /\ Commit([r.w EXCEPT !.scopes = SubSeq(@, 1, Len(@) - CallScopes(rest))])
       /\ stack' = <<>>
       /\ hasRun' = hasRun
       /\ last' = [Last(op, r.err, nested, r.w) EXCEPT !.changed = @ \/ before]
  ELSE LET n == Return(r.push \o rest, r.w.scopes, hasRun) IN
       /\ Commit([r.w EXCEPT !.scopes = n.scopes])
       /\ stack' = n.stack
       /\ hasRun' = n.hasRun
       /\ last' = [Last(op, "", FALSE, r.w) EXCEPT !.changed = @ \/ before]

\* ------------------------------------------------------------------------
\* Bounds on the host: it starts an operation only while the counters are
\* below their bounds
\* ------------------------------------------------------------------------
MaxCount == 2
MaxMoreCalls == 2

RootCount == scopes[1].vars["count"]

Bounded ==
  /\ \A i \in 1..Len(scopes) : scopes[i].version < MaxVersion
  /\ \A x \in Subs : calls[x] < MaxCalls
  /\ \A x \in MoreSubs : calls[x] < MaxMoreCalls
  /\ RootCount.t = "number" => RootCount.n < MaxCount

Idle == stack = <<>>

\* ------------------------------------------------------------------------
\* Init: the state after new Runtime({program, initialState})
\* ------------------------------------------------------------------------
InitWith(pool) ==
  /\ init \in InitPool
  /\ \E initialState \in pool :
       scopes = <<NewScope(Hydrate(initialVars, initialState, 1), 0)>>
  /\ config = [program |-> Program(StateVars, Funcs, init)]
  /\ source = NoSource
  /\ tokens = NoTokens
  /\ parsed = NoProgram
  /\ changeListeners = <<>>
  /\ hasRun = FALSE
  /\ isDestroyed = FALSE
  /\ stack = <<>>
  /\ calls = [x \in Callbacks |-> 0]
  /\ last = [op |-> "host", err |-> "", nested |-> FALSE, changed |-> FALSE,
             val |-> Undefined, seen |-> <<>>]

Init == InitWith(InitialStatePool)

\* ------------------------------------------------------------------------
\* Operations of the host
\* ------------------------------------------------------------------------
\* runtime.run()
Run ==
  /\ Idle /\ Bounded
  /\ IF ~AssertNotDestroyed(W)
     THEN /\ last' = Last("run", "DESTROYED", FALSE, W)
          /\ UNCHANGED <<scopes, changeListeners, hasRun, isDestroyed, stack, calls>>
     ELSE IF hasRun
     THEN /\ last' = Last("run", "", FALSE, W)
          /\ UNCHANGED <<scopes, changeListeners, hasRun, isDestroyed, stack, calls>>
     ELSE LET n == Return(<<Frame(init, 1, "init")>>, scopes, hasRun) IN
          /\ stack' = n.stack
          /\ hasRun' = n.hasRun
          /\ last' = Last("run", "", FALSE, W)
          /\ UNCHANGED <<scopes, changeListeners, isDestroyed, calls>>
  /\ UNCHANGED <<init, config, compiler>>

\* runtime.evaluateExpr(expr), expr drawn from pool: the scopes are left
\* alone, also by a destroyed runtime
EvaluateExprWith(pool) ==
  /\ Idle
  /\ \E expr \in pool :
       LET r == evaluateExpr(expr, scopes, 1) IN
       last' = [Last("evaluateExpr", r.err, FALSE, W) EXCEPT !.val = r.val]
  /\ UNCHANGED <<scopes, changeListeners, hasRun, isDestroyed, stack, calls, init, config, compiler>>

\* runtime.evaluateStmt(stmt), stmt drawn from pool
EvaluateStmtWith(pool) ==
  /\ Idle /\ Bounded
  /\ \E stmt \in pool : Finish(evaluateStmt(W, stmt, 1), <<>>, FALSE)
  /\ UNCHANGED <<init, config, compiler>>

EvaluateStmt == EvaluateStmtWith(StmtPool)

\* the next evaluateStmt invocation of the innermost open forEach
Step ==
  /\ stack # <<>>
  /\ LET top == Head(stack)
         rest == <<[top EXCEPT !.stmts = Tail(@)]>> \o Tail(stack)
     IN Finish(evaluateStmt(W, Head(top.stmts), top.scope), rest, TRUE)
  /\ UNCHANGED <<init, config, compiler>>

\* runtime.setState(state), state drawn from pool
SetStateWith(pool) ==
  /\ Idle /\ Bounded
  /\ IF ~AssertNotDestroyed(W)
     THEN /\ last' = Last("setState", "DESTROYED", FALSE, W)
          /\ UNCHANGED <<scopes, changeListeners, isDestroyed, calls>>
     ELSE \E state \in pool :
          LET w == BatchEnd(SetEntries(BatchBegin(W, 1), state, 1, initialVars), 1) IN
          /\ Commit(w)
          /\ last' = Last("setState", "", FALSE, w)
  /\ UNCHANGED <<hasRun, stack, init, config, compiler>>

SetState == SetStateWith(StatePool)

\* runtime.resetState()
ResetState ==
  /\ Idle /\ Bounded
  /\ IF ~AssertNotDestroyed(W)
     THEN /\ last' = Last("resetState", "DESTROYED", FALSE, W)
          /\ UNCHANGED <<scopes, changeListeners, isDestroyed, calls, hasRun>>
     ELSE LET w == BatchEnd(SetAll(BatchBegin(W, 1), InitialEntries, 1), 1) IN
          /\ Commit(w)
          /\ hasRun' = FALSE
          /\ last' = Last("resetState", "", FALSE, w)
  /\ UNCHANGED <<stack, init, config, compiler>>

\* runtime.batch(fn), entry: the host code of fn follows as operations
BatchEnter ==
  /\ Idle /\ Bounded
  /\ scopes[1].batchDepth < MaxBatchDepth
  /\ Commit(BatchBegin(W, 1))
  /\ last' = Last("host", "", FALSE, W)
  /\ UNCHANGED <<hasRun, stack, init, config, compiler>>

\* runtime.batch(fn), fn has returned or thrown: the finally block
BatchExit ==
  /\ Idle
  /\ scopes[1].batchDepth > 0
  /\ LET w == BatchEnd(W, 1) IN
       /\ Commit(w)
       /\ last' = Last("batchExit", "", FALSE, w)
  /\ UNCHANGED <<hasRun, stack, init, config, compiler>>

\* runtime.scope.set(name, value)
HostSet ==
  /\ Idle /\ Bounded
  /\ \E name \in SetNames, value \in SetValues :
       LET w == ScopeSet(W, 1, name, value).w IN
       /\ Commit(w)
       /\ last' = Last("set", "", FALSE, w)
  /\ UNCHANGED <<hasRun, stack, init, config, compiler>>

\* child.set(name, value) on a child the host got from
\* runtime.scope.extend(); the host drops the child afterwards
ChildSet ==
  /\ Idle /\ Bounded
  /\ \E name \in ChildSetNames, value \in SetValues :
       LET w1 == Extend(W, 1)
           w2 == ScopeSet(w1, Len(w1.scopes), name, value).w
       IN /\ Commit([w2 EXCEPT !.scopes = SubSeq(@, 1, Len(scopes))])
          /\ last' = Last("childSet", "", FALSE, w2)
  /\ UNCHANGED <<hasRun, stack, init, config, compiler>>

\* runtime.onChange(callback), callback drawn from pool
OnChangeWith(pool) ==
  /\ Idle
  /\ \E cb \in pool :
       /\ changeListeners' = SetAdd(changeListeners, cb)
       /\ last' = Last("onChange", "", FALSE, W)
  /\ UNCHANGED <<scopes, hasRun, isDestroyed, stack, calls, init, config, compiler>>

OnChange == OnChangeWith(Subs)

\* the function onChange(callback) returned, callback drawn from pool
UnsubscribeWith(pool) ==
  /\ Idle
  /\ \E cb \in pool :
       /\ changeListeners' = SelectSeq(changeListeners, LAMBDA x : x # cb)
       /\ last' = Last("unsubscribe", "", FALSE, W)
  /\ UNCHANGED <<scopes, hasRun, isDestroyed, stack, calls, init, config, compiler>>

Unsubscribe == UnsubscribeWith(Subs)

\* runtime.destroy()
Destroy ==
  /\ Idle
  /\ Commit(DestroyW(W))
  /\ last' = Last("host", "", FALSE, W)
  /\ UNCHANGED <<hasRun, stack, init, config, compiler>>

Next ==
  \/ Run
  \/ EvaluateStmt
  \/ Step
  \/ SetState
  \/ ResetState
  \/ BatchEnter
  \/ BatchExit
  \/ HostSet
  \/ ChildSet
  \/ OnChange
  \/ Unsubscribe
  \/ Destroy

Spec == Init /\ [][Next]_vars

\* ------------------------------------------------------------------------
\* Hydration: the runtime constructed with, and setState called with, maps
\* that also hold inherited names
\* ------------------------------------------------------------------------
HydrationPool == InitialStatePool \cup ProtoStatePool

InitHydrate == InitWith(HydrationPool)

SetStateHydrate == SetStateWith(StatePool \cup ProtoStatePool)

NextHydrate ==
  \/ Run
  \/ Step
  \/ SetStateHydrate
  \/ ResetState
  \/ HostSet
  \/ BatchEnter
  \/ BatchExit
  \/ OnChange

SpecHydrate == InitHydrate /\ [][NextHydrate]_vars

\* ------------------------------------------------------------------------
\* Properties
\* ------------------------------------------------------------------------
Root == scopes[1]
Depth == scopes[1].batchDepth
NoCalls == [x \in Callbacks |-> 0]
Subscribed(cb) == \E i \in 1..Len(changeListeners) : changeListeners[i] = cb

\* C1: whatever the nesting depth of runtime.batch(), the scope.set,
\* setState and evaluateStmt calls made inside invoke no subscriber while
\* the batch depth is greater than 0, and when the outermost batch exits
\* after a real change every subscriber is invoked exactly once.
C1_BatchNotifiesOnceAtExit ==
  [][last'.op # "childSet" =>
       /\ (Depth > 0 /\ Depth' > 0 => calls' = calls)
       /\ (/\ Depth = 1 /\ Depth' = 0
           /\ Root.pendingNotification /\ ~isDestroyed
           /\ ~Subscribed("d"))
          => \A cb \in Subs :
               calls'[cb] = calls[cb] + (IF Subscribed(cb) THEN 1 ELSE 0)]_vars

\* C2: the root scope's version never decreases; outside a batch an
\* operation that really changes a root variable increments it by exactly 1
\* and one that changes none leaves it alone; inside a batch it stays put,
\* a real change is what marks the notification pending, and the outermost
\* exit increments it by exactly 1 iff a real change was made inside.
C2_VersionSteps ==
  [][/\ Root'.version >= Root.version
     /\ (Depth = 0 => ~Root.pendingNotification)
     /\ (Depth = 0 /\ Depth' = 0 =>
           Root'.version = Root.version + (IF Root'.vars # Root.vars THEN 1 ELSE 0))
     /\ (Depth' > 0 =>
           /\ Root'.version = Root.version
           /\ Root'.pendingNotification =
                (Root.pendingNotification \/ Root'.vars # Root.vars))
     /\ (Depth > 0 /\ Depth' = 0 =>
           /\ Root'.vars = Root.vars
           /\ Root'.version =
                Root.version + (IF Root.pendingNotification THEN 1 ELSE 0))]_vars

\* a batch at depth 2 has been left after a real change, version bumped once
C2_Witness ==
  /\ last.op = "batchExit" /\ Depth = 0
  /\ Root.version = 1 /\ Root.vars # NewScope(initialVars, 0).vars

\* C3: Scope.set(name, v) on any scope of a chain in which name already
\* resolves to v changes no variable, no version, no pending flag and
\* invokes no subscriber.
C3_SetEqualIsNoop ==
  \A sid \in 1..Len(scopes), name \in Names :
    LET g == ScopeGet(scopes, sid, name) IN
    g.err = "" => ScopeSet(W, sid, name, g.val) = [existed |-> TRUE, w |-> W]

\* scope.set was called with the value the variable already had, with a
\* subscriber registered
C3_Witness ==
  /\ last.op = "set" /\ ~last.changed /\ ~isDestroyed
  /\ changeListeners # <<>> /\ calls = NoCalls /\ Root.version = 0

\* C4: the key set of getState() is exactly the set of declared state
\* variable names.
C4_GetStateKeys == OwnKeys(Root.vars) = StateNames

\* C5: a call of run() that follows a call of run() executes no init
\* statement, changes no variable and no version and notifies nobody.
C5_RunIdempotent ==
  [][(Idle /\ last.op = "run" /\ ~isDestroyed /\ last'.op = "run")
       => stack' = <<>> /\ scopes' = scopes /\ calls' = calls]_vars

\* C6: after destroy(), every evaluateStmt invocation, at any nesting
\* level, and every run() raises the destroyed error without changing a
\* variable, a version or hasRun; the loops still open are abandoned.
C6_DestroyedRaises ==
  [][(isDestroyed /\ (stack # <<>> \/ last'.op \in {"run", "evaluateStmt"}))
       => /\ last'.err = "DESTROYED"
          /\ stack' = <<>>
          /\ hasRun' = hasRun
          /\ calls' = calls
          /\ \A i \in 1..Len(scopes') : scopes'[i] = scopes[i]]_vars

\* a statement of a function body raised the destroyed error: destroy() was
\* called by a subscriber while the body was executing
C6_Witness ==
  isDestroyed /\ last.err = "DESTROYED" /\ last.nested /\ calls["d"] > 0

\* C7: once the runtime is destroyed no subscriber is invoked any more,
\* whatever operation follows.
C7_NoCallAfterDestroy == [][isDestroyed => calls' = calls]_vars

\* a root variable was changed by scope.set on the destroyed runtime while
\* a callback was registered
C7_Witness ==
  isDestroyed /\ last.op = "set" /\ last.changed /\ Subscribed("s1")

\* C8: when an evaluateStmt invocation raises, every open statement list is
\* abandoned in the same step, and the step leaves the root scope (values,
\* version) and hasRun as the statements before it left them and takes no
\* notification back.
C8_ErrorAbandonsNoRollback ==
  [][(last'.err # "" /\ (stack # <<>> \/ last'.op = "evaluateStmt"))
       => /\ stack' = <<>>
          /\ scopes'[1] = scopes[1]
          /\ hasRun' = hasRun
          /\ \A cb \in Subs : calls'[cb] >= calls[cb]]_vars

\* a nested statement raised an evaluation error after earlier statements of
\* the same operation had changed a root variable
C8_Witness ==
  /\ last.err \notin {"", "DESTROYED"} /\ last.nested /\ last.changed
  /\ Root.version > 0

\* C9: on a live runtime a call statement whose function is missing or
\* whose argument count is wrong raises the FunctionError and changes
\* nothing: no scope, no version, no callback count, no statement list.
BadCall(stmt) ==
  /\ stmt.kind = "call"
  /\ LET fi == FindFunc(stmt.func, 1) IN
     fi = 0 \/ Len(Funcs[fi].params) # Len(stmt.args)

C9_BadCallRaisesFirst ==
  ~isDestroyed =>
    \A stmt \in StmtPool, sid \in 1..Len(scopes) :
      BadCall(stmt) =>
        LET r == evaluateStmt(W, stmt, sid) IN
        /\ r.err = (IF \E i \in 1..Len(Funcs) : Funcs[i].name = stmt.func
                    THEN "FunctionError:arity" ELSE "FunctionError:notfound")
        /\ r.w = W
        /\ r.push = <<>>

\* the host's evaluateStmt raised the arity error with a callback registered
C9_Witness ==
  last.op = "evaluateStmt" /\ last.err = "FunctionError:arity" /\ Subscribed("s1")

\* C10: a call whose function has a parameter that resolves in the caller's
\* chain raises the shadowing error before the body runs and leaves the
\* root scope alone.
Collides(stmt, sid) ==
  /\ stmt.kind = "call"
  /\ LET fi == FindFunc(stmt.func, 1) IN
     /\ fi # 0
     /\ Len(Funcs[fi].params) = Len(stmt.args)
     /\ \E i \in 1..Len(stmt.args) : ScopeHas(scopes, sid, Funcs[fi].params[i])

ArgsBeforeCollisionOk(stmt, sid) ==
  LET ps == Funcs[FindFunc(stmt.func, 1)].params
      hit == {i \in 1..Len(ps) : ScopeHas(scopes, sid, ps[i])}
  IN \A j \in 1..Len(ps) :
       (\A i \in hit : j < i) => evaluateExpr(stmt.args[j], scopes, sid).err = ""

Resolvable(scs, sid) == {x \in Names : ScopeHas(scs, sid, x)}

\* the evaluateStmt invocation of this step is an assign statement executed
\* with scope i
DirectAssign(i) ==
  IF stack # <<>>
  THEN Head(stack).scope = i /\ Head(Head(stack).stmts).kind = "assign"
  ELSE /\ i = 1
       /\ \E stmt \in StmtPool :
            stmt.kind = "assign" /\ evaluateStmt(W, stmt, 1).w.scopes = scopes'

\* C11: no evaluateStmt invocation changes which names resolve in a scope
\* that exists before and after it, except an assign statement executed
\* with that very scope: a call statement, the binding of its parameters
\* and the statements of its body (at any nesting) leave the names of the
\* caller's scope and of the root scope alone; and every scope other than
\* the root belongs to a call that is still executing.
C11_CallKeepsCallerNames ==
  [][(stack # <<>> \/ last'.op = "evaluateStmt") =>
       /\ \A i \in 1..Len(scopes) :
            (i <= Len(scopes') /\ Resolvable(scopes', i) # Resolvable(scopes, i))
              => DirectAssign(i)
       /\ Len(scopes') = 1 + CallScopes(stack')]_vars

\* a call that bound a parameter or assigned a local and then changed a
\* state variable has returned (two notifications in one operation); only
\* the state variables and the inherited names resolve in the root scope
C11_Witness ==
  /\ Idle /\ last.op = "evaluateStmt" /\ last.err = "" /\ last.changed
  /\ calls["s1"] = 2 /\ Len(scopes) = 1
  /\ Resolvable(scopes, 1) = StateNames \cup ProtoNames

\* the scopes of the callers of the code running with scope sid, up to the
\* root (Scope.parent chain)
RECURSIVE Ancestors(_, _)
Ancestors(scs, sid) ==
  IF scs[sid].parent = 0 THEN {}
  ELSE {scs[sid].parent} \cup Ancestors(scs, scs[sid].parent)

\* C12: while a function runs because it was called from the body of
\* another one, a reference to a name that is bound only in a caller's
\* scope (a parameter or local of the caller: not its own, not a state
\* variable) raises the unknown-variable error.
C12_LexicalScope ==
  \A sid \in 1..Len(scopes), x \in Names :
    (/\ \E a \in Ancestors(scopes, sid) \ {1} : HasOwn(scopes[a].vars, x)
     /\ ~HasOwn(scopes[sid].vars, x)
     /\ ~HasOwn(Root.vars, x))
      => evaluateExpr(Var(x), scopes, sid).err = "ScopeException"

\* ------------------------------------------------------------------------
\* Subscribers: callbacks that throw or unsubscribe themselves
\* ------------------------------------------------------------------------
OnChangeMore == OnChangeWith(MoreSubs)

UnsubscribeMore == UnsubscribeWith(MoreSubs)

NextSubs ==
  \/ OnChangeMore
  \/ UnsubscribeMore
  \/ HostSet
  \/ SetState
  \/ BatchEnter
  \/ BatchExit

SpecSubs == Init /\ [][NextSubs]_vars

\* ------------------------------------------------------------------------
\* Snapshots: runtime.scope.restoreSnapshot(map) called by the host
\* ------------------------------------------------------------------------
\* maps the host passes to restoreSnapshot, as Object.entries
SnapshotPool ==
  { << <<"count", Num(1)>>, <<"isOn", Bool(TRUE)>> >>,
    << <<"count", Num(0)>>, <<"foo", Num(1)>> >>,
    << <<"isOn", Bool(FALSE)>>, <<"toString", Num(1)>> >> }

\* runtime.scope.restoreSnapshot(snapshot)
RestoreSnapshot ==
  /\ Idle /\ Bounded
  /\ \E snapshot \in SnapshotPool :
       LET w == restoreSnapshot(W, 1, snapshot) IN
       /\ Commit(w)
       /\ last' = Last("restoreSnapshot", "", FALSE, w)
  /\ UNCHANGED <<hasRun, stack, init, config, compiler>>

NextSnapshot ==
  \/ RestoreSnapshot
  \/ HostSet
  \/ SetState
  \/ BatchEnter
  \/ BatchExit
  \/ OnChange
  \/ Destroy

SpecSnapshot == Init /\ [][NextSnapshot]_vars

\* ------------------------------------------------------------------------
\* Evaluation: statements and scope.set only
\* ------------------------------------------------------------------------
NextEval ==
  \/ EvaluateStmt
  \/ Step
  \/ HostSet

SpecEval == Init /\ [][NextEval]_vars

\* C13: hydration writes declared state variables only: after construction
\* with any initialState no key that is not a declared state variable is a
\* variable of the root scope, and setState(map) leaves every such key
\* alone while every declared key of the map takes the supplied value.
C13_HydrationOnlyDeclared ==
  /\ \A x \in Names \ StateNames : ~HasOwn(Root.vars, x)
  /\ [][(last'.op = "setState" /\ last'.err = "") =>
          /\ \A x \in Names \ StateNames : Root'.vars[x] = Root.vars[x]
          /\ \E state \in StatePool \cup ProtoStatePool :
               \A i \in 1..Len(state) :
                 state[i][1] \in StateNames => Root'.vars[state[i][1]] = state[i][2]]_vars

\* C14: resetState() on a live runtime leaves every declared state variable
\* at the value of its initialiser as computed at construction, whatever
\* it was hydrated with or set to, and hasRun false; a run() that follows
\* it on the live runtime starts the init block again.
C14_ResetRestoresInitial ==
  [][/\ (last'.op = "resetState" /\ last'.err = "") =>
          /\ \A x \in StateNames : Root'.vars[x] = initialVars[x]
          /\ hasRun' = FALSE
     /\ (/\ Idle /\ last.op = "resetState" /\ last.err = ""
         /\ ~isDestroyed /\ last'.op = "run") =>
          stack' = <<Frame(init, 1, "init")>>]_vars

\* resetState() was the first operation to change a state variable of a
\* runtime constructed with a hydrated value
C14_Witness ==
  /\ last.op = "resetState" /\ last.err = "" /\ last.changed
  /\ Root.version = 1 /\ Root.vars = initialVars /\ ~hasRun

\* the step delivers a notification: _version++ is followed by onChange()
Notified == Root'.version = Root.version + 1

\* C15: on every notification each callback subscribed at that time is
\* invoked exactly once, whether or not an earlier one throws; the
\* operation that changed the state raises nothing and its change is kept.
C15_ThrowingSubscriberIsolated ==
  [][Notified =>
       /\ \A cb \in Callbacks :
            calls'[cb] = calls[cb] + (IF Subscribed(cb) THEN 1 ELSE 0)
       /\ last'.err = ""
       /\ (last'.changed \/ Root.pendingNotification)]_vars

\* a set changed a state variable and notified the throwing callback first
\* and the returning one after it
C15_Witness ==
  /\ changeListeners = <<"t", "r">> /\ last.op = "set" /\ last.changed
  /\ calls["t"] = 1 /\ calls["r"] = 1 /\ Depth = 0

\* C16: a callback that is not subscribed is never invoked; a callback that
\* unsubscribes itself while it is notified is invoked that once and is
\* unsubscribed afterwards, and every other subscribed callback is invoked
\* exactly once in that notification and stays subscribed.
C16_UnsubscribedNotInvoked ==
  [][/\ \A cb \in Callbacks : ~Subscribed(cb) => calls'[cb] = calls[cb]
     /\ (Notified /\ Subscribed("u")) =>
          /\ calls'["u"] = calls["u"] + 1
          /\ changeListeners' = SelectSeq(changeListeners, LAMBDA x : x # "u")
          /\ \A cb \in Callbacks \ {"u"} :
               Subscribed(cb) => calls'[cb] = calls[cb] + 1]_vars

\* the self-unsubscribing callback was notified once, together with the
\* returning one, and a second change notified the returning one alone
C16_Witness ==
  /\ changeListeners = <<"r">> /\ last.op = "set" /\ last.changed
  /\ calls["u"] = 1 /\ calls["r"] = 2 /\ calls["t"] = 0
  /\ Root.version = 2

\* the evaluateStmt invocations that can come next: <<statement, scope>>
Executable ==
  IF stack # <<>> THEN {<<Head(Head(stack).stmts), Head(stack).scope>>}
  ELSE {<<stmt, 1>> : stmt \in StmtPool}

\* values fn returns to batch
FnValues == {Num(0), Str("a"), Bool(TRUE), Undefined}

\* C17: at any batch depth, an operation none of whose set calls changes or
\* creates a value invokes no callback and leaves every version and every
\* pending flag as it is, setState and resetState (batches of their own)
\* included; the exit of a batch in which nothing is pending invokes no
\* callback and leaves the version; and batch(fn) completes with the value
\* fn returned, whether or not the exit notifies.
C17_SilentBatchAndReturn ==
  /\ \A e \in Executable :
       LET r == evaluateStmt(W, e[1], e[2]) IN
       r.w.sets = 0 =>
         /\ r.w.calls = calls
         /\ \A i \in 1..Len(scopes) : r.w.scopes[i] = scopes[i]
  /\ (Idle /\ ~isDestroyed) =>
       /\ \A state \in StatePool :
            LET w == BatchEnd(SetEntries(BatchBegin(W, 1), state, 1, initialVars), 1)
            IN w.sets = 0 => w = W
       /\ LET w == BatchEnd(SetAll(BatchBegin(W, 1), InitialEntries, 1), 1)
          IN w.sets = 0 => w = W
  /\ (Idle /\ Depth > 0) =>
       /\ ~Root.pendingNotification =>
            BatchEnd(W, 1) = [W EXCEPT !.scopes[1].batchDepth = @ - 1]
       /\ \A v \in FnValues :
            BatchCompletion([threw |-> FALSE, value |-> v], BatchEnd(W, 1))
              = [threw |-> FALSE, value |-> v]

\* nested batches in which nothing changed have been left with a callback
\* registered: nobody was notified, the version is still 0
C17_Witness ==
  /\ last.op = "batchExit" /\ Depth = 0 /\ ~isDestroyed
  /\ Subscribed("s1") /\ calls = NoCalls /\ Root.version = 0

\* the nearest scope of sid's chain that has name as a variable of its own,
\* 0 when none has
RECURSIVE Owner(_, _, _)
Owner(scs, sid, name) ==
  IF HasOwn(scs[sid].vars, name) THEN sid
  ELSE IF scs[sid].parent = 0 THEN 0
  ELSE Owner(scs, scs[sid].parent, name)

\* C18: Scope.set(name, value) on any scope of a chain: when name is bound
\* in the scope or an ancestor, the nearest owner's binding is updated, no
\* other scope gets a binding and the call returns true; otherwise the
\* binding is created in the scope set was called on and the call returns
\* false.  A real change made through a descendant increments the owner's
\* version and notifies once.
C18_SetUpdatesOwnerOrCreates ==
  \A sid \in 1..Len(scopes), name \in Names, value \in SetValues :
    LET o == Owner(scopes, sid, name)
        t == IF o = 0 THEN sid ELSE o
        r == ScopeSet(W, sid, name, value)
    IN /\ r.existed = (o # 0)
       /\ \A i \in 1..Len(scopes) :
            r.w.scopes[i].vars =
              (IF i = t THEN [scopes[i].vars EXCEPT ![name] = value]
               ELSE scopes[i].vars)
       /\ (o # 0 /\ o # sid /\ scopes[o].vars[name] # value
           /\ scopes[o].batchDepth = 0) =>
            /\ r.w.scopes[o].version = scopes[o].version + 1
            /\ r.w.sets = 1

\* the value snapshot holds for name, Undefined when name is no key of it
RECURSIVE EntryOf(_, _, _)
EntryOf(snapshot, name, i) ==
  IF i > Len(snapshot) THEN Undefined
  ELSE IF snapshot[i][1] = name THEN snapshot[i][2]
  ELSE EntryOf(snapshot, name, i + 1)

\* C19: restoreSnapshot(map) gives every key of map that is a variable of
\* the scope the map's value, leaves every other variable alone and
\* creates none; it increments the version by at most 1 and invokes each
\* callback at most once, and does neither when no value differs; a
\* mutation of the object getSnapshot() returned leaves the scope alone.
C19_RestoreOnlyOwnKeys ==
  \A snapshot \in SnapshotPool :
    LET w == restoreSnapshot(W, 1, snapshot)
        new == [x \in Names |->
                  IF HasOwn(Root.vars, x) /\ EntryOf(snapshot, x, 1) # Undefined
                  THEN EntryOf(snapshot, x, 1) ELSE Root.vars[x]]
    IN /\ w.scopes[1].vars = new
       /\ w.scopes[1].version \in {Root.version, Root.version + 1}
       /\ \A cb \in Callbacks : w.calls[cb] \in {calls[cb], calls[cb] + 1}
       /\ new = Root.vars => w = W
       /\ \A name \in Names, value \in SetValues :
            MutateSnapshot(W, 1, getSnapshot(scopes, 1), name, value) = W

\* left operands, and right operands some of which evaluate to 0
LeftExprs ==
  {N0, N1, Bin("-", N0, N2), Bin("/", N1, N2), Var("count"), Var("p"),
   Lit(Str("a")), Var("isOn")}
RightExprs ==
  {N0, N1, Bin("-", Var("count"), Var("count")), Bin("*", N0, N2), Var("count"),
   Bin("-", N0, N0), CallE("abs", <<N0>>)}

\* C20: in every scope, a `/` whose left operand evaluates to a number and
\* whose right operand evaluates to 0 raises the division-by-zero error and
\* yields no value; an assign statement with such an expression raises it
\* too and leaves every variable, version and callback count as it was.
C20_DivisionByZeroRaises ==
  \A sid \in 1..Len(scopes), l \in LeftExprs, r \in RightExprs :
    LET lv == evaluateExpr(l, scopes, sid)
        rv == evaluateExpr(r, scopes, sid)
    IN (rv.err = "" /\ rv.val = Num(0) /\ lv.err = "" /\ TypeOf(lv.val) = "number") =>
         /\ evaluateExpr(Bin("/", l, r), scopes, sid) = Throw("ExpressionError")
         /\ ~isDestroyed =>
              \A x \in {"count", "tmp"} :
                evaluateStmt(W, Assign(x, Bin("/", l, r)), sid)
                  = [err |-> "ExpressionError", w |-> W, push |-> <<>>]

\* the assign statement of an if branch divided count by 0: the error was
\* raised by the nested statement and count kept its value
C20_Witness ==
  /\ last.op = "evaluateStmt" /\ last.err = "ExpressionError" /\ last.nested
  /\ ~last.changed /\ Truthy(Root.vars["isOn"])

\* ------------------------------------------------------------------------
\* Expressions: runtime.evaluateExpr(expr) called by the host
\* ------------------------------------------------------------------------
\* BinOp (grammar.ts)
BinOps == {"+", "-", "*", "/", "==", "!=", "&&", "||", "<", "<=", ">", ">="}

\* operand expressions: literals of the three types and state variables
OperandExprs ==
  {N0, N1, N2, Lit(Rat(1, 2)), Lit(Num(-1)), Lit(Str("")), Lit(Str("a")),
   Lit(Str("1")), Lit(Bool(TRUE)), Lit(Bool(FALSE)), Var("count"), Var("isOn")}

\* function names of call expressions: built-ins, a user-defined function,
\* an inherited property name, a name nothing defines
CallNames == BuiltinNames \cup {"inc", "toString", "nosuch"}

\* argument lists of call expressions
CallArgs ==
  {<<>>, <<N1>>, <<Lit(Str("a"))>>, <<N1, N2>>, <<Var("count")>>, <<Var("q")>>,
   <<Bin("/", N1, N0)>>}

\* the expressions the host passes to evaluateExpr
ExprPool ==
  {Bin(op, l, r) : op \in BinOps, l \in OperandExprs, r \in OperandExprs}
    \cup {CallE(f, a) : f \in CallNames, a \in CallArgs}

EvaluateExpr == EvaluateExprWith(ExprPool)

NextExpr ==
  \/ EvaluateExpr
  \/ HostSet
  \/ SetState
  \/ Destroy

SpecExpr == Init /\ [][NextExpr]_vars

\* v is the number p/q
IsQuotient(v, p, q) == v.t = "number" /\ v.d > 0 /\ v.n * q = p * v.d

\* v is the result the arithmetic operator op has for the numbers l and r
IsArithmetic(op, l, r, v) ==
  CASE op = "+" -> IsQuotient(v, l.n * r.d + r.n * l.d, l.d * r.d)
    [] op = "-" -> IsQuotient(v, l.n * r.d - r.n * l.d, l.d * r.d)
    [] op = "*" -> IsQuotient(v, l.n * r.n, l.d * r.d)
    [] OTHER -> r.n # 0 /\ IsQuotient(v, l.n * r.d * (IF r.n < 0 THEN -1 ELSE 1),
                                      l.d * Abs(r.n))

\* the truth value the relational operator op has for the numbers l and r
Compares(op, l, r) ==
  CASE op = "<" -> l.n * r.d < r.n * l.d
    [] op = "<=" -> l.n * r.d <= r.n * l.d
    [] op = ">" -> l.n * r.d > r.n * l.d
    [] OTHER -> l.n * r.d >= r.n * l.d

\* l and r are the same value of the same type
SameValue(l, r) ==
  /\ l.t = r.t
  /\ CASE l.t = "number" -> l.n * r.d = r.n * l.d
       [] l.t = "string" -> l.s = r.s
       [] OTHER -> l.b = r.b

\* the contract of every operator but `/`, for operand values l and r and
\* the outcome res of the evaluation
ContractBut(op, l, r, res) ==
  CASE op \in {"+", "-", "*"} ->
         IF l.t = "number" /\ r.t = "number"
         THEN res.err = "" /\ IsArithmetic(op, l, r, res.val)
         ELSE res = Throw("TypeError")
    [] op \in {"<", "<=", ">", ">="} ->
         IF l.t = "number" /\ r.t = "number"
         THEN res = Ok(Bool(Compares(op, l, r)))
         ELSE res = Throw("TypeError")
    [] op \in {"&&", "||"} ->
         IF l.t = "boolean" /\ r.t = "boolean"
         THEN res = Ok(Bool(IF op = "&&" THEN l.b /\ r.b ELSE l.b \/ r.b))
         ELSE res = Throw("TypeError")
    [] op = "==" -> res = Ok(Bool(SameValue(l, r)))
    [] op = "!=" -> res = Ok(Bool(~SameValue(l, r)))
    [] OTHER -> TRUE

\* the binary expressions over operands that evaluate to a value, with the
\* operand values and the outcome of the evaluation in the root scope
BinaryCases ==
  {[op |-> op, l |-> evaluateExpr(l, scopes, 1).val,
    r |-> evaluateExpr(r, scopes, 1).val,
    res |-> evaluateExpr(Bin(op, l, r), scopes, 1)] :
     op \in BinOps, l \in OperandExprs, r \in OperandExprs}

\* C21 as stated: every operator follows its type contract, `/` returning
\* the quotient for every pair of numbers and raising TypeError otherwise.
C21_TypeContract ==
  \A c \in BinaryCases :
    /\ ContractBut(c.op, c.l, c.r, c.res)
    /\ c.op = "/" =>
         IF c.l.t = "number" /\ c.r.t = "number"
         THEN c.res.err = "" /\ c.res.val.t = "number"
         ELSE c.res = Throw("TypeError")

\* C21: for every binary operator and operand values that are numbers,
\* strings or booleans: + - * < <= > >= return the arithmetic or comparison
\* result for two numbers and raise TypeError otherwise; `/` raises
\* TypeError unless both operands are numbers, raises the division-by-zero
\* ExpressionError for two numbers when the right one is 0 and returns the
\* quotient otherwise; && and || return the boolean result for two
\* booleans and raise TypeError otherwise; == and != never raise and
\* compare by value, values of different types being unequal.
C21_TypeContractDivision ==
  \A c \in BinaryCases :
    /\ ContractBut(c.op, c.l, c.r, c.res)
    /\ c.op = "/" =>
         IF c.l.t = "number" /\ c.r.t = "number"
         THEN IF c.r.n = 0 THEN c.res = Throw("ExpressionError")
              ELSE c.res.err = "" /\ IsArithmetic("/", c.l, c.r, c.res.val)
         ELSE c.res = Throw("TypeError")

\* the host evaluated a binary expression over the state variable count,
\* which a set had changed, and a value of another type: TypeError
C21_Witness ==
  /\ last.op = "evaluateExpr" /\ last.err = "TypeError"
  /\ Root.vars["count"] = Num(1) /\ Root.version = 1

\* C22: a call expression whose func is none of the nine built-ins raises
\* the unknown-function error and returns no value, whatever its
\* arguments: names of user-defined functions and names such as "toString"
\* included.
C22_UnknownFunctionRaises ==
  \A f \in CallNames \ BuiltinNames, a \in CallArgs :
    evaluateExpr(CallE(f, a), scopes, 1) = Throw("FunctionError:notfound")

\* ------------------------------------------------------------------------
\* Construction: new Runtime(config) over the programs of a pool
\* ------------------------------------------------------------------------
\* initialisers of state variables: closed expressions, and expressions
\* that refer to a variable
InitExprs ==
  {N0, N1, Lit(Bool(FALSE)), Bin("+", N1, N2), CallE("abs", <<N1>>),
   Var("count"), Var("q"), Bin("+", N1, Var("isOn")),
   CallE("abs", <<Var("count")>>), CallE("nosuch", <<Var("q")>>)}

\* program.state.vars of the programs the host constructs runtimes over:
\* two declarations, of two names or twice of one name
StateVarsPool ==
  {<<[name |-> n1, init |-> e1], [name |-> n2, init |-> e2]>> :
     n1 \in StateNames, n2 \in StateNames, e1 \in InitExprs, e2 \in InitExprs}

\* no runtime object exists
NoRuntime ==
  /\ scopes = <<>>
  /\ init = <<>>
  /\ changeListeners = <<>>
  /\ hasRun = FALSE
  /\ isDestroyed = FALSE
  /\ stack = <<>>
  /\ calls = [x \in Callbacks |-> 0]
  /\ last = [op |-> "host", err |-> "", nested |-> FALSE, changed |-> FALSE,
             val |-> Undefined, seen |-> <<>>]

\* before new Runtime(config)
InitConstruct ==
  /\ NoRuntime
  /\ \E svs \in StateVarsPool, ss \in InitPool :
       config = [program |-> Program(svs, Funcs, ss)]
  /\ source = NoSource
  /\ tokens = NoTokens
  /\ parsed = NoProgram

\* a runtime object exists
Constructed == scopes # <<>>

\* new Runtime({program: config.program, initialState})
NewRuntime ==
  /\ ~Constructed /\ last.op = "host"
  /\ \E initialState \in InitialStatePool :
       LET r == Construct(config, initialState) IN
       /\ scopes' = r.scopes
       /\ init' = IF r.err = "" THEN config.program.init ELSE init
       /\ last' = [op |-> "constructor", err |-> r.err, nested |-> FALSE,
                   changed |-> FALSE, val |-> Undefined, seen |-> <<>>]
  /\ UNCHANGED <<changeListeners, hasRun, isDestroyed, stack, calls, config, compiler>>

\* runtime.scope.set(name, value) on the runtime constructed
SetConstructed == Constructed /\ HostSet

NextConstruct ==
  \/ NewRuntime
  \/ SetConstructed

SpecConstruct == InitConstruct /\ [][NextConstruct]_vars

\* expr contains a variable reference
RECURSIVE HasVarRef(_)
HasVarRef(expr) ==
  CASE expr.kind = "var" -> TRUE
    [] expr.kind = "binary" -> HasVarRef(expr.left) \/ HasVarRef(expr.right)
    [] expr.kind = "call" -> \E i \in 1..Len(expr.args) : HasVarRef(expr.args[i])
    [] OTHER -> FALSE

\* some initialiser of the program passed refers to a variable
RefersToVariable ==
  \E i \in 1..Len(config.program.state.vars) :
    HasVarRef(config.program.state.vars[i].init)

\* C23: new Runtime over a program one of whose state initialisers contains
\* a variable reference raises an error, whatever initialState is passed,
\* and no runtime exists for such a program.
C23_VarRefFailsConstruction ==
  RefersToVariable =>
    /\ ~Constructed
    /\ \A initialState \in InitialStatePool \cup ProtoStatePool :
         Construct(config, initialState).err # ""
    /\ last.op = "constructor" => last.err # ""

\* the constructor raised over a program whose first initialiser is closed
\* and whose second one refers to the first state variable
C23_Witness ==
  /\ last.op = "constructor" /\ last.err = "NativeTypeError" /\ ~Constructed
  /\ config.program.state.vars =
       <<[name |-> "count", init |-> N1], [name |-> "isOn", init |-> Var("count")]>>

\* ------------------------------------------------------------------------
\* The Program object: the host writes to the object it passed to the
\* constructor
\* ------------------------------------------------------------------------
\* runtime.getProgram(): this.program
getProgram == Program(StateVars, Funcs, init)

\* what the host makes of its Program object: another initialiser, another
\* function body, an emptied and an extended init list
MutatedPrograms ==
  {Program(<<[name |-> "count", init |-> N2], StateVars[2]>>, Funcs, init),
   Program(StateVars, <<Func("inc", <<>>, <<Assign("count", N0)>>)>>, init),
   Program(StateVars, Funcs, <<>>),
   Program(StateVars, Funcs, <<Assign("count", N2)>>)}

\* the host writes to the Program object it passed
MutateProgram ==
  /\ Idle
  /\ \E p \in MutatedPrograms :
       /\ config' = [config EXCEPT !.program = p]
       /\ init' = OwnProgram(getProgram, p).init
  /\ last' = Last("host", "", FALSE, W)
  /\ UNCHANGED <<scopes, changeListeners, hasRun, isDestroyed, stack, calls, compiler>>

NextProgram ==
  \/ MutateProgram
  \/ Run
  \/ Step
  \/ EvaluateStmt
  \/ ResetState

SpecProgram == Init /\ [][NextProgram]_vars

Digits == {"0", "1", "2", "3", "4", "5", "6", "7", "8", "9"}
Letters ==
  {"a", "b", "c", "d", "e", "f", "g", "h", "i", "j", "k", "l", "m", "n", "o", "p",
   "q", "r", "s", "t", "u", "v", "w", "x", "y", "z", "A", "B", "C", "D", "E", "F",
   "G", "H", "I", "J", "K", "L", "M", "N", "O", "P", "Q", "R", "S", "T", "U", "V",
   "W", "X", "Y", "Z", "_"}

\* the characters of the texts of the model
Alphabet ==
  Letters \cup Digits \cup
    {" ", "\t", "\r", "\n", "\"", "\\", ".", "=", "!", "&", "|", "+", "-", "*", "/",
     "<", ">", ";", ",", ":", "{", "}", "(", ")", "#", "@"}

\* K applied to the value of v, which is computed once
With(v, K(_)) == CHOOSE out \in {K(x) : x \in {v}} : TRUE

\* the Tokenizer fields after new Tokenizer(source); err is the error
\* tokenize() has thrown ("" = none), at this.line and this.column
NewTokenizer ==
  [position |-> 1, line |-> 1, column |-> 1, tokens |-> <<>>, err |-> "",
   starts |-> <<>>]

\* this.source[this.position], "" standing for undefined
Current(t, src) == IF t.position <= Len(src) THEN src[t.position] ELSE ""

\* peek(): the character after the current one, "\0" at the end
Peek(t, src) == IF t.position + 1 <= Len(src) THEN src[t.position + 1] ELSE "\\0"

\* advance()
Advance(t, src) ==
  IF t.position <= Len(src)
  THEN [t EXCEPT !.position = @ + 1,
                 !.column = IF src[t.position] # "\n" THEN @ + 1 ELSE @]
  ELSE t

\* the position at which while (the character at pos is one of chars) pos++
\* stops
RECURSIVE RunEnd(_, _, _)
RunEnd(src, pos, chars) ==
  IF pos <= Len(src) /\ src[pos] \in chars THEN RunEnd(src, pos + 1, chars) ELSE pos

\* while (the current character is one of chars) advance(): every advance()
\* moves the position, and the column unless the character is a line break
AdvanceWhile(t, src, chars) ==
  With(RunEnd(src, t.position, chars), LAMBDA end :
  [t EXCEPT !.position = end,
            !.column = @ + Cardinality({i \in t.position .. end - 1 : src[i] # "\n"})])

\* the string made of the characters cs
RECURSIVE Join(_)
Join(cs) == IF cs = <<>> THEN "" ELSE Head(cs) \o Join(Tail(cs))

\* addToken(type, value): the token is placed value.length columns before
\* this.column
AddToken(t, type, value) ==
  [t EXCEPT !.tokens = Append(@, [type |-> type, value |-> value, line |-> t.line,
                                  column |-> t.column - Len(value)])]

\* throw new TokenizerError(message, this.line, this.column)
TokenizerError(t) == [t EXCEPT !.err = "TokenizerError"]

\* tokenizeNumber()
TokenizeNumber(t, src) ==
  With(AdvanceWhile(t, src, Digits), LAMBDA t1 :
  With(IF Current(t1, src) = "." /\ Peek(t1, src) \in Digits
       THEN AdvanceWhile(Advance(t1, src), src, Digits) ELSE t1, LAMBDA t2 :
  AddToken(t2, "NUMBER", SubSeq(src, t.position, t2.position - 1))))

\* the loop of tokenizeString(): value is the text collected so far
RECURSIVE StringBody(_, _, _)
StringBody(t, src, value) ==
  CASE t.position > Len(src) -> TokenizerError(t)
    [] src[t.position] = "\"" -> AddToken(Advance(t, src), "STRING", value)
    [] src[t.position] = "\\" ->
         LET t1 == Advance(t, src)
             escaped == IF t1.position <= Len(src) THEN src[t1.position] ELSE "\\0"
         IN StringBody(Advance(t1, src), src,
                       Append(value, CASE escaped = "n" -> "\n"
                                       [] escaped = "t" -> "\t"
                                       [] escaped = "r" -> "\r"
                                       [] OTHER -> escaped))
    [] OTHER -> StringBody(Advance(t, src), src, Append(value, src[t.position]))

\* tokenizeString()
TokenizeString(t, src) == StringBody(Advance(t, src), src, <<>>)

\* this.keywords[value] || TokenType.IDENTIFIER, a lookup on a plain object
\* with the string value
Keyword(value) ==
  CASE value = "state" -> "STATE"
    [] value = "logic" -> "LOGIC"
    [] value = "init" -> "INIT"
    [] value = "function" -> "FUNCTION"
    [] value = "if" -> "IF"
    [] value = "else" -> "ELSE"
    [] value \in {"true", "false"} -> "BOOLEAN"
    [] value \in ProtoNames -> "function " \o value
    [] OTHER -> "IDENTIFIER"

\* tokenizeIdentifier()
TokenizeIdentifier(t, src) ==
  With(AdvanceWhile(t, src, Letters \cup Digits), LAMBDA t1 :
  With(SubSeq(src, t.position, t1.position - 1), LAMBDA value :
  AddToken(t1, Keyword(Join(value)), value)))

\* tokenizeOperatorOrPunctuation()
TokenizeOperatorOrPunctuation(t, src) ==
  LET char == src[t.position]
      t1 == Advance(t, src)
      next == Current(t1, src)
      One(type) == AddToken(t1, type, <<char>>)
      Two(type) == AddToken(Advance(t1, src), type, <<char, next>>)
  IN CASE char = "=" -> IF next = "=" THEN Two("EQUALS") ELSE One("ASSIGN")
       [] char = "!" -> IF next = "=" THEN Two("NOT_EQUALS") ELSE TokenizerError(t1)
       [] char = "&" -> IF next = "&" THEN Two("AND") ELSE TokenizerError(t1)
       [] char = "|" -> IF next = "|" THEN Two("OR") ELSE TokenizerError(t1)
       [] char = "+" -> One("PLUS")
       [] char = "-" -> One("MINUS")
       [] char = "*" -> One("MULTIPLY")
       [] char = "/" -> One("DIVIDE")
       [] char = "<" -> IF next = "=" THEN Two("LESS_EQUAL") ELSE One("LESS_THAN")
       [] char = ">" -> IF next = "=" THEN Two("GREATER_EQUAL") ELSE One("GREATER_THAN")
       [] char = ";" -> One("SEMICOLON")
       [] char = "," -> One("COMMA")
       [] char = ":" -> One("COLON")
       [] char = "{" -> One("LEFT_BRACE")
       [] char = "}" -> One("RIGHT_BRACE")
       [] char = "(" -> One("LEFT_PAREN")
       [] char = ")" -> One("RIGHT_PAREN")
       [] OTHER -> TokenizerError(t1)

\* t with the position at which the lexeme of the token just added began
\* (kept beside the tokens; no field of Token)
Started(t, start) == [t EXCEPT !.starts = Append(@, start)]

\* one pass of the loop of tokenize(); t itself once the loop has ended or
\* has thrown
TokenizePass(t, src) ==
  IF t.err # "" \/ t.position > Len(src) THEN t
  ELSE With(AdvanceWhile(t, src, {" ", "\t", "\r"}), LAMBDA t1 :
       LET at == t1.position
           char == src[at]
       IN CASE at > Len(src) -> t1
            [] char = "\n" ->
                 [Advance(Started(AddToken(t1, "NEWLINE", <<"\n">>), at), src)
                    EXCEPT !.line = @ + 1, !.column = 1]
            [] char \in Digits -> Started(TokenizeNumber(t1, src), at)
            [] char = "\"" -> Started(TokenizeString(t1, src), at)
            [] char \in Letters -> Started(TokenizeIdentifier(t1, src), at)
            [] char = "/" /\ Peek(t1, src) = "/" ->
                 AdvanceWhile(Advance(Advance(t1, src), src), src, Alphabet \ {"\n"})
            [] OTHER -> Started(TokenizeOperatorOrPunctuation(t1, src), at))

\* n passes of the loop of tokenize(), made as one half of them and then
\* the other
RECURSIVE TokenizePasses(_, _, _)
TokenizePasses(t, src, n) ==
  CASE n = 0 -> t
    [] n = 1 -> TokenizePass(t, src)
    [] OTHER -> With(TokenizePasses(t, src, n \div 2), LAMBDA half :
                TokenizePasses(half, src, n - n \div 2))

\* new Tokenizer(src).tokenize(): the tokens, or the TokenizerError with
\* its line and column.  A pass of the loop that neither ends it nor throws
\* advances, so the loop has ended after Len(src) passes.
tokenize(src) ==
  With(TokenizePasses(NewTokenizer, src, Len(src)), LAMBDA t :
  [err |-> t.err, line |-> t.line, column |-> t.column,
   tokens |-> IF t.err = "" THEN AddToken(t, "EOF", <<>>).tokens ELSE <<>>,
   starts |-> IF t.err = "" THEN Append(t.starts, t.position) ELSE <<>>])

\* bound on the length of the texts
MaxSourceLen == 4

\* the characters the texts of the pool are made of
TextChars == {"a", "1", " ", "\n", "\"", "\\", "=", "!", "<", "/", "#", "."}

\* the texts the host tokenizes: every text of at most MaxSourceLen
\* characters
SourcePool == UNION {[1..n -> TextChars] : n \in 0..MaxSourceLen}

\* before tokenize(): no runtime, a text
InitTokenize ==
  /\ NoRuntime
  /\ config = [program |-> Program(<<>>, <<>>, <<>>)]
  /\ source \in SourcePool
  /\ tokens = NoTokens
  /\ parsed = NoProgram

\* new Tokenizer(source).tokenize()
Tokenize ==
  /\ tokens = NoTokens
  /\ tokens' = tokenize(source)
  /\ UNCHANGED <<scopes, changeListeners, hasRun, isDestroyed, init, stack, calls, last,
                 config, source, parsed>>

NextTokenize == Tokenize

SpecTokenize == InitTokenize /\ [][NextTokenize]_vars

\* the 1-based line and column of position p of the text src
LineOf(src, p) == 1 + Cardinality({q \in 1..(p - 1) : src[q] = "\n"})
ColumnOf(src, p) ==
  LET breaks == {q \in 1..(p - 1) : src[q] = "\n"} IN
  IF breaks = {} THEN p ELSE p - CHOOSE q \in breaks : \A r \in breaks : r <= q

\* C26: every token tokenize() returns carries the 1-based line and column
\* of the first character of its lexeme in the text, STRING, NEWLINE and
\* EOF tokens and tokens after a string with line breaks included.
C26_TokenPositions ==
  tokens.err = "" =>
    \A i \in 1..Len(tokens.tokens) :
      /\ tokens.tokens[i].line = LineOf(source, tokens.starts[i])
      /\ tokens.tokens[i].column = ColumnOf(source, tokens.starts[i])

\* positions of the text src at which a character that starts no token
\* stands: `#`, a backslash, or a `!` that no `=` follows
Unrecognized(src) ==
  {p \in 1..Len(src) :
     \/ src[p] \in {"#", "\\"}
     \/ src[p] = "!" /\ (p = Len(src) \/ src[p + 1] # "=")}

\* positions of the quotes of src
Quotes(src) == {p \in 1..Len(src) : src[p] = "\""}

\* C27: tokenize() raises a TokenizerError and returns no tokens for every
\* text with an unrecognized character or an unterminated string literal,
\* and the error carries the line and column of the unrecognized
\* character, respectively those at which the input ended inside the
\* string.  (Stated for texts without `/` and `.`, where the first such
\* character, or the only quote, decides.)
C27_ErrorPositions ==
  (tokens # NoTokens /\ \A p \in 1..Len(source) : source[p] \notin {"/", "."}) =>
    /\ (Quotes(source) = {} /\ Unrecognized(source) # {}) =>
         LET p == CHOOSE q \in Unrecognized(source) :
                    \A r \in Unrecognized(source) : q <= r
         IN /\ tokens.err = "TokenizerError" /\ tokens.tokens = <<>>
            /\ tokens.line = LineOf(source, p)
            /\ tokens.column = ColumnOf(source, p)
    /\ (Cardinality(Quotes(source)) = 1
        /\ \A p \in Unrecognized(source) : \E q \in Quotes(source) : q < p) =>
         /\ tokens.err = "TokenizerError" /\ tokens.tokens = <<>>
         /\ tokens.line = LineOf(source, Len(source) + 1)
         /\ tokens.column = ColumnOf(source, Len(source) + 1)

\* ------------------------------------------------------------------------
\* Parser (parser.ts).  this.current counts from 1 here (this.current + 1);
\* a method becomes an operator from the token array and the position to
\* its outcome: the error raised and the token it is raised at, or the
\* position reached and the node built.
\* ------------------------------------------------------------------------
\* a method returned val with this.current at pos
Done(pos, val) == [err |-> "", pos |-> pos, val |-> val]

\* throw new ParseError(message, this.tokens[at])
ParseError(at) == [err |-> "ParseError", pos |-> at, val |-> <<>>]

\* a loop of the method runs on at pos for ever, changing nothing
Diverges(pos) == [err |-> "diverges", pos |-> pos, val |-> <<>>]

\* what follows a call that may throw: the error r, or K of the outcome r.
\* The methods of the expressions, which call each other to the depth of
\* the expression, have it written out.
Then(r, K(_)) == CHOOSE out \in {IF x.err # "" THEN x ELSE K(x) : x \in {r}} : TRUE

\* isAtEnd() and check(type)
IsAtEnd(toks, pos) == toks[pos].type = "EOF"
Check(toks, pos, type) == ~IsAtEnd(toks, pos) /\ toks[pos].type = type

\* skipNewlines(): the position after the NEWLINE tokens at pos
RECURSIVE SkipNewlines(_, _)
SkipNewlines(toks, pos) ==
  IF Check(toks, pos, "NEWLINE") THEN SkipNewlines(toks, pos + 1) ELSE pos

\* consume(type, message): the ParseError at the token, or rest, which goes
\* on after the token
Consume(toks, pos, type, rest) == IF Check(toks, pos, type) THEN rest ELSE ParseError(pos)

\* Number(value) for the value of a NUMBER token: digits, or digits "."
\* digits
DigitOf(c) ==
  CHOOSE k \in 0..9 : <<"0", "1", "2", "3", "4", "5", "6", "7", "8", "9">>[k + 1] = c

RECURSIVE Decimal(_, _)
Decimal(cs, acc) ==
  IF cs = <<>> THEN acc ELSE Decimal(Tail(cs), 10 * acc + DigitOf(Head(cs)))

RECURSIVE Pow10(_)
Pow10(k) == IF k = 0 THEN 1 ELSE 10 * Pow10(k - 1)

NumberOf(value) ==
  LET dots == {p \in 1..Len(value) : value[p] = "."} IN
  IF dots = {} THEN Num(Decimal(value, 0))
  ELSE LET p == CHOOSE q \in dots : TRUE
       IN Rat(Decimal(SubSeq(value, 1, p - 1) \o SubSeq(value, p + 1, Len(value)), 0),
              Pow10(Len(value) - p))

\* the token types the loop of a level of binary operators matches, from
\* parseLogicalOr (1) to parseFactor (6), with the additive and the
\* multiplicative operators at exchanged levels
LevelTypes_FactorAboveTerm(level) ==
  CASE level = 1 -> {"OR"}
    [] level = 2 -> {"AND"}
    [] level = 3 -> {"EQUALS", "NOT_EQUALS"}
    [] level = 4 -> {"GREATER_THAN", "GREATER_EQUAL", "LESS_THAN", "LESS_EQUAL"}
    [] level = 5 -> {"MULTIPLY", "DIVIDE"}
    [] level = 6 -> {"PLUS", "MINUS"}

\* the token types the loop of a level of binary operators matches,
\* with a parseComparison that matches nothing
LevelTypes_NoComparison(level) ==
  CASE level = 1 -> {"OR"}
    [] level = 2 -> {"AND"}
    [] level = 3 -> {"EQUALS", "NOT_EQUALS"}
    [] level = 4 -> {}
    [] level = 5 -> {"PLUS", "MINUS"}
    [] level = 6 -> {"MULTIPLY", "DIVIDE"}

\* the token types the loop of a level of binary operators matches:
\* parseLogicalOr (1), parseLogicalAnd (2), parseEquality (3),
\* parseComparison (4), parseTerm (5), parseFactor (6)
LevelTypes(level) ==
  CASE level = 1 -> {"OR"}
    [] level = 2 -> {"AND"}
    [] level = 3 -> {"EQUALS", "NOT_EQUALS"}
    [] level = 4 -> {"GREATER_THAN", "GREATER_EQUAL", "LESS_THAN", "LESS_EQUAL"}
    [] level = 5 -> {"PLUS", "MINUS"}
    [] level = 6 -> {"MULTIPLY", "DIVIDE"}

RECURSIVE ParseLevel(_, _, _), LevelLoops(_, _, _, _), LevelLoop(_, _, _)

\* parseUnary()
ParseUnary(toks, pos) ==
  CASE Check(toks, pos, "NUMBER") -> Done(pos + 1, Lit(NumberOf(toks[pos].value)))
    [] Check(toks, pos, "STRING") -> Done(pos + 1, Lit(Str(Join(toks[pos].value))))
    [] Check(toks, pos, "BOOLEAN") ->
         Done(pos + 1, Lit(Bool(Join(toks[pos].value) = "true")))
    [] Check(toks, pos, "IDENTIFIER") -> Done(pos + 1, Var(Join(toks[pos].value)))
    [] Check(toks, pos, "LEFT_PAREN") ->
         CHOOSE out \in
           {IF expr.err # "" THEN expr
            ELSE Consume(toks, expr.pos, "RIGHT_PAREN", Done(expr.pos + 1, expr.val)) :
            expr \in {ParseLevel(toks, pos + 1, 1)}} : TRUE
    [] OTHER -> ParseError(pos)

\* the method of a level.  It begins by calling the method of the next
\* level, and so on down to parseUnary(); the operand that returns then
\* passes through the loops of the levels 6, 5, ..., level in turn
ParseLevel(toks, pos, level) ==
  IF level > 6 THEN ParseUnary(toks, pos)
  ELSE CHOOSE out \in
         {IF operand.err # "" THEN operand ELSE LevelLoops(toks, operand, 6, level) :
          operand \in {ParseUnary(toks, pos)}} : TRUE

\* the loops of the levels from, from - 1, ..., level on the operand expr.
\* A loop whose operator does not follow returns expr as it is: the loop
\* that runs next is the highest of them whose operator follows
LevelLoops(toks, expr, from, level) ==
  LET following == {l \in level..from : ~IsAtEnd(toks, expr.pos)
                                          /\ toks[expr.pos].type \in LevelTypes(l)}
  IN IF following = {} THEN expr
     ELSE LET highest == CHOOSE l \in following : \A k \in following : k <= l
          IN CHOOSE out \in
               {IF looped.err # "" THEN looped
                ELSE LevelLoops(toks, looped, highest - 1, level) :
                looped \in {LevelLoop(toks, expr, highest)}} : TRUE

\* while (this.match(...)) { op; right; expr = {binary, op, left: expr, right} }
LevelLoop(toks, expr, level) ==
  IF ~IsAtEnd(toks, expr.pos) /\ toks[expr.pos].type \in LevelTypes(level)
  THEN CHOOSE out \in
         {IF right.err # "" THEN right
          ELSE LevelLoop(toks, Done(right.pos, Bin(Join(toks[expr.pos].value), expr.val,
                                                   right.val)), level) :
          right \in {ParseLevel(toks, expr.pos + 1, level + 1)}} : TRUE
  ELSE expr

\* parseExpression()
ParseExpression(toks, pos) == ParseLevel(toks, pos, 1)

\* do { items.push(this.parseExpression()) } while (this.match(COMMA))
RECURSIVE ParseArguments(_, _, _)
ParseArguments(toks, pos, args) ==
  Then(ParseExpression(toks, pos), LAMBDA expr :
    IF Check(toks, expr.pos, "COMMA")
    THEN ParseArguments(toks, expr.pos + 1, Append(args, expr.val))
    ELSE Done(expr.pos, Append(args, expr.val)))

\* do { params.push({name: consume(IDENTIFIER)}) } while (this.match(COMMA))
RECURSIVE ParseParams(_, _, _)
ParseParams(toks, pos, params) ==
  Consume(toks, pos, "IDENTIFIER",
    IF Check(toks, pos + 1, "COMMA")
    THEN ParseParams(toks, pos + 2, Append(params, Join(toks[pos].value)))
    ELSE Done(pos + 1, Append(params, Join(toks[pos].value))))

\* parseAssignment()
ParseAssignment(toks, pos) ==
  Consume(toks, pos, "IDENTIFIER",
  Consume(toks, pos + 1, "ASSIGN",
  Then(ParseExpression(toks, pos + 2), LAMBDA expr :
  Consume(toks, expr.pos, "SEMICOLON",
  Done(expr.pos + 1, Assign(Join(toks[pos].value), expr.val))))))

\* parseFunctionCall()
ParseFunctionCall(toks, pos) ==
  Consume(toks, pos, "IDENTIFIER",
  Consume(toks, pos + 1, "LEFT_PAREN",
  Then(IF Check(toks, pos + 2, "RIGHT_PAREN") THEN Done(pos + 2, <<>>)
       ELSE ParseArguments(toks, pos + 2, <<>>), LAMBDA args :
  Consume(toks, args.pos, "RIGHT_PAREN",
  Consume(toks, args.pos + 1, "SEMICOLON",
  Done(args.pos + 2, CallS(Join(toks[pos].value), args.val)))))))

RECURSIVE ParseStatement(_, _), ParseStatements(_, _, _), ParseIfStatement(_, _)

\* while (!check(RIGHT_BRACE) && !isAtEnd()) { stmts.push(parseStatement());
\* skipNewlines() }: the loops of parseFunction, parseInit, parseIfStatement
ParseStatements(toks, pos, stmts) ==
  IF ~Check(toks, pos, "RIGHT_BRACE") /\ ~IsAtEnd(toks, pos)
  THEN Then(ParseStatement(toks, pos), LAMBDA stmt :
       ParseStatements(toks, SkipNewlines(toks, stmt.pos), Append(stmts, stmt.val)))
  ELSE Done(pos, stmts)

\* consume(LEFT_BRACE); skipNewlines(); the loop; consume(RIGHT_BRACE)
ParseBlock(toks, pos) ==
  Consume(toks, pos, "LEFT_BRACE",
  Then(ParseStatements(toks, SkipNewlines(toks, pos + 1), <<>>), LAMBDA stmts :
  Consume(toks, stmts.pos, "RIGHT_BRACE", Done(stmts.pos + 1, stmts.val))))

\* parseIfStatement(), after the IF token
ParseIfStatement(toks, pos) ==
  Then(ParseExpression(toks, pos), LAMBDA cond :
  Then(ParseBlock(toks, cond.pos), LAMBDA thenStmts :
    IF Check(toks, thenStmts.pos, "ELSE")
    THEN Then(ParseBlock(toks, thenStmts.pos + 1), LAMBDA elseStmts :
         Done(elseStmts.pos, IfElse(cond.val, thenStmts.val, elseStmts.val)))
    ELSE Done(thenStmts.pos, If(cond.val, thenStmts.val))))

\* parseStatement(): the lookahead is the token after the identifier
ParseStatement(toks, pos) ==
  CASE Check(toks, pos, "IF") -> ParseIfStatement(toks, pos + 1)
    [] Check(toks, pos, "IDENTIFIER") ->
         CASE toks[pos + 1].type = "ASSIGN" -> ParseAssignment(toks, pos)
           [] toks[pos + 1].type = "LEFT_PAREN" -> ParseFunctionCall(toks, pos)
           [] OTHER -> ParseError(pos + 1)
    [] OTHER -> ParseError(pos)

\* parseFunction(), after the FUNCTION token
ParseFunction(toks, pos) ==
  Consume(toks, pos, "IDENTIFIER",
  Consume(toks, pos + 1, "LEFT_PAREN",
  Then(IF Check(toks, pos + 2, "RIGHT_PAREN") THEN Done(pos + 2, <<>>)
       ELSE ParseParams(toks, pos + 2, <<>>), LAMBDA params :
  Consume(toks, params.pos, "RIGHT_PAREN",
  Then(ParseBlock(toks, params.pos + 1), LAMBDA body :
  Done(body.pos, Func(Join(toks[pos].value), params.val, body.val)))))))

\* parseInit(), after the INIT token
ParseInit(toks, pos) == ParseBlock(toks, pos)

\* the loop of parseState(): a token that is no identifier, no newline and
\* no `}` is neither consumed nor rejected
RECURSIVE StateLoop(_, _, _)
StateLoop(toks, pos, svs) ==
  CASE Check(toks, pos, "RIGHT_BRACE") \/ IsAtEnd(toks, pos) -> Done(pos, svs)
    [] Check(toks, pos, "IDENTIFIER") ->
         Consume(toks, pos + 1, "ASSIGN",
         Then(ParseExpression(toks, pos + 2), LAMBDA expr :
         Consume(toks, expr.pos, "SEMICOLON",
         StateLoop(toks, SkipNewlines(toks, expr.pos + 1),
                   Append(svs, [name |-> Join(toks[pos].value), init |-> expr.val])))))
    [] SkipNewlines(toks, pos) = pos -> Diverges(pos)
    [] OTHER -> StateLoop(toks, SkipNewlines(toks, pos), svs)

\* parseState(), after the STATE token
ParseState(toks, pos) ==
  Consume(toks, pos, "LEFT_BRACE",
  Then(StateLoop(toks, SkipNewlines(toks, pos + 1), <<>>), LAMBDA svs :
  Consume(toks, svs.pos, "RIGHT_BRACE", Done(svs.pos + 1, svs.val))))

\* the loop of parseLogic(): a token that is no FUNCTION, no newline and
\* no `}` is neither consumed nor rejected
RECURSIVE LogicLoop(_, _, _)
LogicLoop(toks, pos, fs) ==
  CASE Check(toks, pos, "RIGHT_BRACE") \/ IsAtEnd(toks, pos) -> Done(pos, fs)
    [] Check(toks, pos, "FUNCTION") ->
         Then(ParseFunction(toks, pos + 1), LAMBDA func :
         LogicLoop(toks, SkipNewlines(toks, func.pos), Append(fs, func.val)))
    [] SkipNewlines(toks, pos) = pos -> Diverges(pos)
    [] OTHER -> LogicLoop(toks, SkipNewlines(toks, pos), fs)

\* parseLogic(), after the LOGIC token
ParseLogic(toks, pos) ==
  Consume(toks, pos, "LEFT_BRACE",
  Then(LogicLoop(toks, SkipNewlines(toks, pos + 1), <<>>), LAMBDA fs :
  Consume(toks, fs.pos, "RIGHT_BRACE", Done(fs.pos + 1, fs.val))))

\* the loop that skips a ui block: the position after the brace that
\* closes it, or that of EOF
RECURSIVE SkipUI(_, _, _)
SkipUI(toks, pos, braceDepth) ==
  IF ~IsAtEnd(toks, pos) /\ braceDepth > 0
  THEN SkipUI(toks, pos + 1,
              CASE toks[pos].type = "LEFT_BRACE" -> braceDepth + 1
                [] toks[pos].type = "RIGHT_BRACE" -> braceDepth - 1
                [] OTHER -> braceDepth)
  ELSE pos

\* the loop of parse(): a section replaces the one parsed before it.
\* TokenType.UI is no member of the enumeration, and no token has it.
RECURSIVE ParseSections(_, _, _)
ParseSections(toks, pos, program) ==
  LET at == SkipNewlines(toks, pos) IN
  CASE IsAtEnd(toks, pos) \/ IsAtEnd(toks, at) -> Done(at, program)
    [] Check(toks, at, "STATE") ->
         Then(ParseState(toks, at + 1), LAMBDA state :
         ParseSections(toks, state.pos, [program EXCEPT !.state.vars = state.val]))
    [] Check(toks, at, "LOGIC") ->
         Then(ParseLogic(toks, at + 1), LAMBDA logic :
         ParseSections(toks, logic.pos, [program EXCEPT !.logic.funcs = logic.val]))
    [] Check(toks, at, "INIT") ->
         Then(ParseInit(toks, at + 1), LAMBDA stmts :
         ParseSections(toks, stmts.pos, [program EXCEPT !.init = stmts.val]))
    [] Check(toks, at, "UI") ->
         Consume(toks, at + 1, "LEFT_BRACE",
         ParseSections(toks, SkipUI(toks, at + 2, 1), program))
    [] OTHER -> ParseError(at)

\* new Parser(toks).parse(): the Program (val), or the ParseError and the
\* index of the token it names (pos), or that the call does not return
parse(toks) == ParseSections(toks, 1, Program(<<>>, <<>>, <<>>))

\* ------------------------------------------------------------------------
\* compile(source) (compiler.ts) over expression programs: the texts
\* `state{a=` e `;}` for the expressions e of a pool
\* ------------------------------------------------------------------------
\* compile(source)
Compile ==
  /\ tokens = NoTokens
  /\ tokens' = tokenize(source)
  /\ parsed' = IF tokens'.err = "" THEN parse(tokens'.tokens) ELSE NoProgram
  /\ UNCHANGED <<scopes, changeListeners, hasRun, isDestroyed, init, stack, calls, last,
                 config, source>>

\* bound on the number of operators of the expression trees
MaxOps == 2

\* bound on the length of the snippets
MaxSnippetLen == 3

\* the operators and operands of the expression trees
TreeOps == {"||", "&&", "==", "<=", "+", "-", "*"}
TreeLeaves == {Var("a"), Lit(Num(1))}

\* the expression trees with k operators
RECURSIVE Trees(_)
Trees(k) ==
  IF k = 0 THEN TreeLeaves
  ELSE UNION {{Bin(o, l, r) : o \in TreeOps, l \in Trees(i), r \in Trees(k - 1 - i)} :
                i \in 0..(k - 1)}

\* the characters of a binary operator
OpChars(op) ==
  CASE op = "||" -> <<"|", "|">>
    [] op = "&&" -> <<"&", "&">>
    [] op = "==" -> <<"=", "=">>
    [] op = "!=" -> <<"!", "=">>
    [] op = "<=" -> <<"<", "=">>
    [] op = ">=" -> <<">", "=">>
    [] OTHER -> <<op>>

\* the level of a binary operator, from 1 (loosest) to 6 (tightest)
OpLevel(op) ==
  CASE op = "||" -> 1
    [] op = "&&" -> 2
    [] op \in {"==", "!="} -> 3
    [] op \in {"<", "<=", ">", ">="} -> 4
    [] op \in {"+", "-"} -> 5
    [] op \in {"*", "/"} -> 6

\* a text of the expression e where an operand of level need or tighter
\* is expected: with parentheses around every binary operation (full), or
\* only around those that are looser than expected
RECURSIVE TextOf(_, _, _)
TextOf(e, need, full) ==
  IF e.kind = "var" THEN <<e.name>>
  ELSE IF e.kind = "literal" THEN <<"1">>
  ELSE LET inner == TextOf(e.left, OpLevel(e.op), full) \o OpChars(e.op)
                      \o TextOf(e.right, OpLevel(e.op) + 1, full)
       IN IF full \/ OpLevel(e.op) < need THEN <<"(">> \o inner \o <<")">> ELSE inner

\* the characters of the snippets
SnippetChars == {"a", "1", "<", ">", "=", "!", "/", "(", ")"}

\* the text state{a= e ;} for the text e of an expression
StateProgram(e) == <<"s", "t", "a", "t", "e", "{", "a", "=">> \o e \o <<";", "}">>

\* the texts the host compiles: expression programs for the trees, and
\* for every snippet of at most len characters
ExprSourcePool(ops, len) ==
  {StateProgram(TextOf(e, 1, full)) :
     e \in UNION {Trees(k) : k \in 0..ops}, full \in BOOLEAN}
  \cup {StateProgram(x) : x \in UNION {[1..n -> SnippetChars] : n \in 0..len}}

\* before compile(): no runtime, a text
InitCompile ==
  /\ NoRuntime
  /\ config = [program |-> Program(<<>>, <<>>, <<>>)]
  /\ source \in ExprSourcePool(MaxOps, MaxSnippetLen)
  /\ tokens = NoTokens
  /\ parsed = NoProgram

NextCompile == Compile

SpecCompile == InitCompile /\ [][NextCompile]_vars

\* the level of the token type of a binary operator in the grammar
\* Or := And ('||' And)*, ..., Mul := Unary (('*'|'/') Unary)*, from 1
\* (loosest) to 6 (tightest); 0 for every other token type.  With
\* relational, < <= > >= are operators too, tighter than == and !=,
\* looser than + and -.
GrammarLevel(type, relational) ==
  CASE type = "OR" -> 1
    [] type = "AND" -> 2
    [] type \in {"EQUALS", "NOT_EQUALS"} -> 3
    [] type \in {"GREATER_THAN", "GREATER_EQUAL", "LESS_THAN", "LESS_EQUAL"} ->
         IF relational THEN 4 ELSE 0
    [] type \in {"PLUS", "MINUS"} -> 5
    [] type \in {"MULTIPLY", "DIVIDE"} -> 6
    [] OTHER -> 0

\* the number of parentheses open before position k of the tokens i..j
OpenAt(toks, i, k) ==
  Cardinality({p \in i..(k - 1) : toks[p].type = "LEFT_PAREN"})
    - Cardinality({p \in i..(k - 1) : toks[p].type = "RIGHT_PAREN"})

\* the tree the grammar prescribes for the tokens i..j, if they are a
\* well-formed expression (ok): split at the last of the loosest operators
\* outside parentheses; else drop the enclosing parentheses; else an
\* operand
RECURSIVE Prescribed(_, _, _, _)
Prescribed(toks, i, j, relational) ==
  LET outer == {k \in i..j : GrammarLevel(toks[k].type, relational) > 0 /\ OpenAt(toks, i, k) = 0} IN
  IF i > j THEN [ok |-> FALSE, tree |-> <<>>]
  ELSE IF outer # {}
  THEN LET k == CHOOSE p \in outer :
                  \A q \in outer :
                    \/ GrammarLevel(toks[q].type, relational)
                         > GrammarLevel(toks[p].type, relational)
                    \/ /\ GrammarLevel(toks[q].type, relational)
                            = GrammarLevel(toks[p].type, relational)
                       /\ q <= p
           l == Prescribed(toks, i, k - 1, relational)
           r == Prescribed(toks, k + 1, j, relational)
       IN IF l.ok /\ r.ok
          THEN [ok |-> TRUE, tree |-> Bin(Join(toks[k].value), l.tree, r.tree)]
          ELSE [ok |-> FALSE, tree |-> <<>>]
  ELSE IF i < j /\ toks[i].type = "LEFT_PAREN" /\ toks[j].type = "RIGHT_PAREN"
  THEN Prescribed(toks, i + 1, j - 1, relational)
  ELSE IF i = j /\ toks[i].type \in {"NUMBER", "STRING", "BOOLEAN", "IDENTIFIER"}
  THEN [ok |-> TRUE, tree |-> ParseUnary(toks, i).val]
  ELSE [ok |-> FALSE, tree |-> <<>>]

\* compile() got the tokens of a program state{a= e ;}
ExpressionProgram ==
  /\ tokens.err = ""
  /\ Len(tokens.tokens) >= 8
  /\ [k \in 1..4 |-> tokens.tokens[k].type]
       = <<"STATE", "LEFT_BRACE", "IDENTIFIER", "ASSIGN">>
  /\ tokens.tokens[Len(tokens.tokens) - 2].type = "SEMICOLON"
  /\ tokens.tokens[Len(tokens.tokens) - 1].type = "RIGHT_BRACE"

\* C28: for every token sequence of a well-formed expression over the
\* operators || && == != + - * / the parser returns the tree the grammar
\* prescribes: || loosest, then &&, then == and !=, then + and -, then *
\* and / tightest, every level left-associative, and parentheses override
\* precedence without a node of their own.
C28_GrammarTree ==
  ExpressionProgram =>
    LET e == Prescribed(tokens.tokens, 5, Len(tokens.tokens) - 3, FALSE) IN
    e.ok => /\ parsed.err = ""
            /\ parsed.val.state.vars = <<[name |-> "a", init |-> e.tree]>>

\* parentheses made the looser + the operand of *: (a + 1) * a
C28_Witness ==
  /\ parsed.err = ""
  /\ Len(parsed.val.state.vars) = 1
  /\ parsed.val.state.vars[1].init
       = Bin("*", Bin("+", Var("a"), Lit(Num(1))), Var("a"))

\* the token types and the operators of < <= > >=
RelationalTypes == {"LESS_THAN", "LESS_EQUAL", "GREATER_THAN", "GREATER_EQUAL"}
RelationalOps == {"<", "<=", ">", ">="}

\* the operators of the binary nodes of an expression
RECURSIVE OpsOf(_)
OpsOf(expr) ==
  CASE expr.kind = "binary" -> {expr.op} \cup OpsOf(expr.left) \cup OpsOf(expr.right)
    [] expr.kind = "call" -> UNION {OpsOf(expr.args[i]) : i \in 1..Len(expr.args)}
    [] OTHER -> {}

\* the operators of the initialisers of the program compile() returned
CompiledOps ==
  IF parsed.err # "" THEN {}
  ELSE UNION {OpsOf(parsed.val.state.vars[i].init) : i \in 1..Len(parsed.val.state.vars)}

MaxPieces == 4

\* the pieces: openers of the sections, a closing brace, declarations,
\* functions, statements, a number, a line break
Pieces ==
  {<<"s", "t", "a", "t", "e", "{">>,
   <<"l", "o", "g", "i", "c", "{">>,
   <<"i", "n", "i", "t", "{">>,
   <<"}">>,
   <<"a", "=", "1", ";">>,
   <<"a", "=", "2", ";">>,
   <<"f", "u", "n", "c", "t", "i", "o", "n", " ", "a", "(", ")", "{", "}">>,
   <<"f", "u", "n", "c", "t", "i", "o", "n", " ", "a", "(", ")", "{", "a", "(", ")", ";", "}">>,
   <<"a", "(", ")", ";">>,
   <<"i", "f", " ", "a", "{">>,
   <<"1">>,
   <<"\n">>}

\* the texts of exactly k pieces
RECURSIVE PieceTexts(_)
PieceTexts(k) ==
  IF k = 0 THEN {<<>>} ELSE {x \o y : x \in PieceTexts(k - 1), y \in Pieces}

\* the texts the host compiles
SectionSourcePool(pieces) == UNION {PieceTexts(k) : k \in 0..pieces}

\* before compile(): no runtime, a text
InitSections ==
  /\ NoRuntime
  /\ config = [program |-> Program(<<>>, <<>>, <<>>)]
  /\ source \in SectionSourcePool(MaxPieces)
  /\ tokens = NoTokens
  /\ parsed = NoProgram

NextSections == Compile

SpecSections == InitSections /\ [][NextSections]_vars

\* C24: for every token sequence that ends with EOF, parse() terminates:
\* it returns a Program or raises a ParseError; a token in a state block
\* that is no identifier, newline or `}`, and a token in a logic block that
\* is no `function`, newline or `}`, raises a ParseError.
C24_ParseTerminates ==
  (tokens # NoTokens /\ tokens.err = "") => parsed.err \in {"", "ParseError"}

\* the names of the declarations ds are pairwise different
UniqueNames(ds) ==
  \A i \in 1..Len(ds), j \in 1..Len(ds) : ds[i].name = ds[j].name => i = j

\* C29: state-variable names and function names are unique within every
\* Program compile() returns: a text that declares the same state variable
\* twice, or the same function twice, is rejected.
C29_UniqueNames ==
  parsed.err = "" =>
    /\ UniqueNames(parsed.val.state.vars)
    /\ UniqueNames(parsed.val.logic.funcs)

\* ------------------------------------------------------------------------
\* Calls from function bodies: call statements whose functions call
\* further functions, some of them themselves
\* ------------------------------------------------------------------------
\* statements the host passes to evaluateStmt
NestedPool ==
  { CallS("rec", <<N1>>),
    CallS("pass", <<N1>>),
    CallS("ping", <<N0>>),
    CallS("via", <<N1>>),
    CallS("outer", <<N2>>),
    CallS("late", <<N1, N2>>),
    CallS("toggle", <<>>) }

EvaluateNested == EvaluateStmtWith(NestedPool)

\* ------------------------------------------------------------------------
\* Termination: run() and evaluateStmt run to completion on the calling
\* thread, so the forEach loop that is open always makes its next
\* evaluateStmt invocation (weak fairness of Step)
\* ------------------------------------------------------------------------
NextRun ==
  \/ Run
  \/ EvaluateStmt
  \/ EvaluateNested
  \/ Step
  \/ ResetState
  \/ Destroy

SpecRun == Init /\ [][NextRun]_vars /\ WF_vars(Step)

\* the functions a statement list calls directly, at any if nesting
RECURSIVE CalledBy(_, _)
CalledBy(ss, i) ==
  IF i > Len(ss) THEN {}
  ELSE CalledBy(ss, i + 1) \cup
       CASE ss[i].kind = "call" -> {ss[i].func}
         [] ss[i].kind = "if" -> CalledBy(ss[i].then, 1) \cup CalledBy(ss[i].else, 1)
         [] OTHER -> {}

\* the functions reached from those of fs through n or fewer further calls
RECURSIVE Reached(_, _)
Reached(fs, n) ==
  IF n = 0 THEN fs
  ELSE Reached(fs \cup UNION {CalledBy(Funcs[FindFunc(f, 1)].body, 1) :
                                f \in {g \in fs : FindFunc(g, 1) # 0}}, n - 1)

\* the functions that can reach themselves through call statements
Recursive ==
  {Funcs[i].name : i \in {k \in 1..Len(Funcs) :
     Funcs[k].name \in Reached(CalledBy(Funcs[k].body, 1), Len(Funcs))}}

\* the statement lists of the open loops reach no function that can reach
\* itself: what is left to execute is a program with an acyclic call graph
Acyclic(stk) ==
  Reached(UNION {CalledBy(stk[i].stmts, 1) : i \in 1..Len(stk)}, Len(Funcs))
    \cap Recursive = {}

\* the number of evaluateStmt invocations a statement list can still take
RECURSIVE Invocations(_, _)
Invocations(ss, i) ==
  IF i > Len(ss) THEN 0
  ELSE Invocations(ss, i + 1) + 1 +
       CASE ss[i].kind = "call" ->
              IF FindFunc(ss[i].func, 1) = 0 THEN 0
              ELSE Invocations(Funcs[FindFunc(ss[i].func, 1)].body, 1)
         [] ss[i].kind = "if" -> Invocations(ss[i].then, 1) + Invocations(ss[i].else, 1)
         [] OTHER -> 0

\* the same for the statement lists of the open loops
RECURSIVE Remaining(_, _)
Remaining(stk, i) ==
  IF i > Len(stk) THEN 0 ELSE Invocations(stk[i].stmts, 1) + Remaining(stk, i + 1)

\* C31: while what run() or evaluateStmt(stmt) has left to execute reaches
\* no function that can reach itself through call statements (an acyclic
\* call graph), every evaluateStmt invocation lowers the number of
\* invocations the open loops can still take, and the operation comes to
\* its end: every open loop is left, by return or by an error.
C31_Terminates ==
  /\ [][(stack # <<>> /\ Acyclic(stack)) =>
          Remaining(stack', 1) < Remaining(stack, 1)]_vars
  /\ (stack # <<>> /\ Acyclic(stack)) ~> (stack = <<>>)

\* run() has returned after its init block made a call whose body ran
C31_Witness ==
  /\ Idle /\ hasRun /\ last.op = "run" /\ last.err = "" /\ last.changed
  /\ Acyclic(<<Frame(init, 1, "init")>>)

\* ------------------------------------------------------------------------
\* The round trip Program -> JSON text -> Program of a compiled program
\* ------------------------------------------------------------------------
\* JavaScript values as trees: a primitive (number, string, boolean),
\* undefined, an array of values, an object as its own properties in
\* insertion order, each a pair <<key, value>>
Primitive(v) == [js |-> "primitive", value |-> v]
JsUndefined == [js |-> "undefined"]
Array(items) == [js |-> "array", items |-> items]
Object(props) == [js |-> "object", props |-> props]

\* SPEC_VERSION (grammar.ts)
SPEC_VERSION == "giast/0.1"

RECURSIVE ExprObject(_)
\* the object the parser creates for an expression: { kind: "literal",
\* value }, { kind: "var", name }, { kind: "binary", op, left, right },
\* { kind: "call", func, args }
ExprObject(e) ==
  CASE e.kind = "literal" ->
         Object(<< <<"kind", Primitive(Str("literal"))>>, <<"value", Primitive(e.value)>> >>)
    [] e.kind = "var" ->
         Object(<< <<"kind", Primitive(Str("var"))>>, <<"name", Primitive(Str(e.name))>> >>)
    [] e.kind = "binary" ->
         Object(<< <<"kind", Primitive(Str("binary"))>>, <<"op", Primitive(Str(e.op))>>,
                   <<"left", ExprObject(e.left)>>, <<"right", ExprObject(e.right)>> >>)
    [] e.kind = "call" ->
         Object(<< <<"kind", Primitive(Str("call"))>>, <<"func", Primitive(Str(e.func))>>,
                   <<"args", Array([i \in 1..Len(e.args) |-> ExprObject(e.args[i])])>> >>)

RECURSIVE StmtObject(_)
\* the object the parser creates for a statement: { kind: "assign", target,
\* expr }, { kind: "call", func, args }, and { kind: "if", cond, then:
\* thenStmts, else: elseStmts }, where elseStmts is undefined when the text
\* has no else
StmtObject(s) ==
  CASE s.kind = "assign" ->
         Object(<< <<"kind", Primitive(Str("assign"))>>, <<"target", Primitive(Str(s.target))>>,
                   <<"expr", ExprObject(s.expr)>> >>)
    [] s.kind = "call" ->
         Object(<< <<"kind", Primitive(Str("call"))>>, <<"func", Primitive(Str(s.func))>>,
                   <<"args", Array([i \in 1..Len(s.args) |-> ExprObject(s.args[i])])>> >>)
    [] s.kind = "if" ->
         Object(<< <<"kind", Primitive(Str("if"))>>, <<"cond", ExprObject(s.cond)>>,
                   <<"then", Array([i \in 1..Len(s.then) |-> StmtObject(s.then[i])])>>,
                   <<"else", IF s.hasElse
                             THEN Array([i \in 1..Len(s.else) |-> StmtObject(s.else[i])])
                             ELSE JsUndefined>> >>)

StmtsArray(ss) == Array([i \in 1..Len(ss) |-> StmtObject(ss[i])])

\* { name, params, body } with params holding { name: paramName }
FuncObject(f) ==
  Object(<< <<"name", Primitive(Str(f.name))>>,
            <<"params", Array([i \in 1..Len(f.params) |->
                                 Object(<< <<"name", Primitive(Str(f.params[i]))>> >>)])>>,
            <<"body", StmtsArray(f.body)>> >>)

\* the Program object parse() returns: { spec: SPEC_VERSION, state:
\* { vars }, logic: { funcs }, init }, the declarations being { name, init }
ProgramObject(p) ==
  Object(<< <<"spec", Primitive(Str(SPEC_VERSION))>>,
            <<"state", Object(<< <<"vars",
                Array([i \in 1..Len(p.state.vars) |->
                         Object(<< <<"name", Primitive(Str(p.state.vars[i].name))>>,
                                   <<"init", ExprObject(p.state.vars[i].init)>> >>)])>> >>)>>,
            <<"logic", Object(<< <<"funcs",
                Array([i \in 1..Len(p.logic.funcs) |-> FuncObject(p.logic.funcs[i])])>> >>)>>,
            <<"init", StmtsArray(p.init)>> >>)

\* JSON texts as trees: the text of a number, of a string, true, false,
\* null, [ items ] and { members }, a member being <<key, text>>
JsonNumber(v) == [json |-> "number", sign |-> IF v.n < 0 THEN "-" ELSE "", n |-> Abs(v.n), d |-> v.d]
JsonString(v) == [json |-> "string", chars |-> v.s]
JsonBoolean(v) == [json |-> IF v.b THEN "true" ELSE "false"]
JsonNull == [json |-> "null"]
JsonArray(items) == [json |-> "array", items |-> items]
JsonObject(members) == [json |-> "object", members |-> members]

\* JSON.stringify(value): a property whose value is undefined is left out
\* of the object's text, an array item that is undefined is written null
RECURSIVE stringify(_)
stringify(v) ==
  CASE v.js = "primitive" ->
         CASE v.value.t = "number" -> JsonNumber(v.value)
           [] v.value.t = "string" -> JsonString(v.value)
           [] OTHER -> JsonBoolean(v.value)
    [] v.js = "undefined" -> JsonNull
    [] v.js = "array" -> JsonArray([i \in 1..Len(v.items) |-> stringify(v.items[i])])
    [] v.js = "object" ->
         LET kept == SelectSeq(v.props, LAMBDA prop : prop[2].js # "undefined")
         IN JsonObject([i \in 1..Len(kept) |-> <<kept[i][1], stringify(kept[i][2])>>])

\* the value null
JsNull == [js |-> "null"]

\* JSON.parse(text)
RECURSIVE jsonParse(_)
jsonParse(t) ==
  CASE t.json = "number" -> Primitive(Rat(IF t.sign = "-" THEN -t.n ELSE t.n, t.d))
    [] t.json = "string" -> Primitive(Str(t.chars))
    [] t.json = "true" -> Primitive(Bool(TRUE))
    [] t.json = "false" -> Primitive(Bool(FALSE))
    [] t.json = "null" -> JsNull
    [] t.json = "array" -> Array([i \in 1..Len(t.items) |-> jsonParse(t.items[i])])
    [] t.json = "object" ->
         Object([i \in 1..Len(t.members) |-> <<t.members[i][1], jsonParse(t.members[i][2])>>])

\* Object.keys(a) of an object or an array, and a[key]
KeysOf(a) ==
  IF a.js = "array" THEN 1..Len(a.items) ELSE {a.props[i][1] : i \in 1..Len(a.props)}
PropertyOf(a, key) ==
  IF a.js = "array" THEN a.items[key]
  ELSE a.props[CHOOSE i \in 1..Len(a.props) : a.props[i][1] = key][2]

\* deepEqual(a, b)
RECURSIVE deepEqual(_, _)
deepEqual(a, b) ==
  CASE a.js = "primitive" /\ b.js = "primitive" -> a.value = b.value
    [] a.js = "undefined" /\ b.js = "undefined" -> TRUE
    [] a.js \in {"undefined", "null"} \/ b.js \in {"undefined", "null"} ->
         a.js = "null" /\ b.js = "null"
    [] a.js = "primitive" \/ b.js = "primitive" -> FALSE
    [] OTHER ->
         /\ Cardinality(KeysOf(a)) = Cardinality(KeysOf(b))
         /\ \A key \in KeysOf(a) :
              key \in KeysOf(b) /\ deepEqual(PropertyOf(a, key), PropertyOf(b, key))

\* bound on the nesting of if statements in the texts
MaxNesting == 1

\* statements without a block
SimpleTexts ==
  {<<"a", "=", "1", ";">>,
   <<"f", "(", "a", ",", "0", ".", "5", ")", ";">>}

\* the statements of if nesting up to d, and the blocks `{` statement `}`
\* and `{}` over them
RECURSIVE StmtTexts(_)
BlockTexts(d) == {<<"{">> \o s \o <<"}">> : s \in {<<>>} \cup StmtTexts(d)}
StmtTexts(d) ==
  IF d = 0 THEN SimpleTexts
  ELSE SimpleTexts
       \cup {<<"i", "f", " ", "a">> \o t : t \in BlockTexts(d - 1)}
       \cup {<<"i", "f", " ", "a">> \o t \o <<"e", "l", "s", "e">> \o e :
               t \in BlockTexts(d - 1), e \in BlockTexts(d - 1)}

\* the texts the host compiles: an init block of up to two statements, a
\* function with a statement, a state block
RoundTripSourcePool(d) ==
  {<<"i", "n", "i", "t", "{">> \o s \o t \o <<"}">> :
     s \in {<<>>} \cup StmtTexts(d), t \in {<<>>} \cup StmtTexts(d)}
  \cup {<<"l", "o", "g", "i", "c", "{", "f", "u", "n", "c", "t", "i", "o", "n", " ",
          "f", "(", "p", ",", "q", ")">> \o b \o <<"}">> : b \in BlockTexts(d)}
  \cup {<<"s", "t", "a", "t", "e", "{", "a", "=">> \o e \o <<";", "}">> :
          e \in {<<"1">>, <<"0", ".", "5">>, <<"t", "r", "u", "e">>, <<"\"", "a", "\"">>,
                 <<"a", "+", "1">>, <<"(", "a", ")">>}}

\* no round trip made
NoClone == [js |-> "none"]

\* before compile(): no runtime, a text, no clone
InitRoundTrip ==
  /\ NoRuntime
  /\ config = [program |-> NoClone]
  /\ source \in RoundTripSourcePool(MaxNesting)
  /\ tokens = NoTokens
  /\ parsed = NoProgram

\* the host takes JSON.parse(JSON.stringify(program)) of the program that
\* compile() returned as the program of a config object
RoundTrip ==
  /\ parsed.err = ""
  /\ config.program = NoClone
  /\ config' = [program |-> jsonParse(stringify(ProgramObject(parsed.val)))]
  /\ UNCHANGED <<scopes, changeListeners, hasRun, isDestroyed, init, stack, calls, last,
                 compiler>>

NextRoundTrip ==
  \/ Compile
  \/ RoundTrip

SpecRoundTrip == InitRoundTrip /\ [][NextRoundTrip]_vars

\* C32: for every Program p that compile() returns, JSON.parse(
\* JSON.stringify(p)) is structurally identical to p: the same keys with
\* the same values at every node (deepEqual), also where p has an if
\* statement written without an else branch.
C32_RoundTripIdentical ==
  config.program # NoClone => deepEqual(ProgramObject(parsed.val), config.program)

\* ------------------------------------------------------------------------
\* Notifications and the state version
\* ------------------------------------------------------------------------
\* C33: every invocation of a subscriber corresponds to an increase of
\* stateVersion (the version of the root scope): an operation invokes no
\* callback more often than it increments stateVersion, so that between two
\* consecutive invocations of a subscriber, and before its first, the
\* version has increased; a call statement that only binds parameters or
\* assigns function-local names invokes no subscriber.
C33_NotificationMeansChange ==
  [][\A cb \in Callbacks :
       calls'[cb] - calls[cb] <= Root'.version - Root.version]_vars

\* ------------------------------------------------------------------------
\* Nested calls and parameter names
\* ------------------------------------------------------------------------
NextCalls ==
  \/ EvaluateNested
  \/ Step
  \/ HostSet
  \/ OnChange

SpecCalls == Init /\ [][NextCalls]_vars

\* the statement the innermost open loop executes next and its scope
NextStmt == Head(Head(stack).stmts)
NextScope == Head(stack).scope

\* the parameters of the function NextStmt calls
NextParams == Funcs[FindFunc(NextStmt.func, 1)].params

\* name is bound in the chain of the calling frame: in its scope, in the
\* scope of one of its callers, or in the root scope
BoundInChain(name) ==
  \E a \in {NextScope} \cup Ancestors(scopes, NextScope) : In(scopes[a].vars, name)

\* a function body is about to execute a call, with as many arguments as
\* parameters, of a function one of whose parameters is bound in the chain
NestedCollision ==
  /\ stack # <<>> /\ ~isDestroyed
  /\ Head(stack).kind = "body"
  /\ NextStmt.kind = "call" /\ FindFunc(NextStmt.func, 1) # 0
  /\ Len(NextParams) = Len(NextStmt.args)
  /\ \E i \in 1..Len(NextParams) : BoundInChain(NextParams[i])

\* the arguments of the positions before the first bound parameter evaluate
EarlierArgsOk ==
  \A j \in 1..Len(NextParams) :
    (\A i \in 1..j : ~BoundInChain(NextParams[i]))
      => evaluateExpr(NextStmt.args[j], scopes, NextScope).err = ""

\* C34: a call statement executed by a function body while a parameter of
\* the called function is bound in the chain of the calling frame raises
\* the shadowing FunctionError before the body of the called function runs.
C34_NestedShadowingRaised ==
  NestedCollision =>
    LET r == evaluateStmt(W, NextStmt, NextScope) IN
    r.err = "FunctionError:shadow" /\ r.push = <<>>

\* C34 amended: such a call raises before the body of the called function
\* runs, and the error is the shadowing FunctionError exactly when the
\* arguments of the positions before the first colliding parameter
\* evaluate, else it is their evaluation error; consequently no function
\* with at least one parameter runs its body while an invocation of it is
\* still executing.
C34_NestedCallRaises ==
  /\ NestedCollision =>
       LET r == evaluateStmt(W, NextStmt, NextScope) IN
       /\ r.err # "" /\ r.push = <<>>
       /\ (r.err = "FunctionError:shadow") = EarlierArgsOk
  /\ \A i \in 1..Len(stack), j \in 1..Len(stack) :
       (i # j /\ stack[i].kind = "body" /\ stack[i].func = stack[j].func)
         => Funcs[FindFunc(stack[i].func, 1)].params = <<>>

\* the body of a function with a parameter assigned a state variable and
\* then called the function again: the call raised the shadowing error
C34_Witness ==
  /\ last.op = "evaluateStmt" /\ last.nested /\ last.err = "FunctionError:shadow"
  /\ last.changed /\ Idle

\* ------------------------------------------------------------------------
\* Batches whose function throws
\* ------------------------------------------------------------------------
\* statements the host passes to evaluateStmt inside fn: some raise, one
\* of them after it changed a state variable
ThrowingPool ==
  { CallS("fail", <<>>),
    CallS("nosuch", <<>>),
    Assign("count", Bin("/", N1, N0)),
    Assign("count", N1),
    CallS("toggle", <<>>) }

EvaluateThrowing == EvaluateStmtWith(ThrowingPool)

\* runtime.batch(fn), fn has thrown: the error the last operation of fn
\* raised leaves fn; the finally block runs and batch completes with the
\* exception, which reaches the caller of batch
BatchThrow ==
  /\ Idle
  /\ scopes[1].batchDepth > 0
  /\ last.err # ""
  /\ LET w == BatchUnwind(W, 1)
         c == BatchCompletion([threw |-> TRUE, value |-> Str(last.err)], w)
     IN /\ Commit(w)
        /\ last' = Last("batchThrow", IF c.threw THEN c.value.s ELSE "", FALSE, w)
  /\ UNCHANGED <<hasRun, stack, init, config, compiler>>

NextBatch ==
  \/ BatchEnter
  \/ BatchExit
  \/ BatchThrow
  \/ EvaluateThrowing
  \/ Step
  \/ HostSet
  \/ SetState
  \/ OnChangeMore

SpecBatch == Init /\ [][NextBatch]_vars

\* C35: when fn throws inside batch(fn), at any depth, the exception
\* reaches the caller and the batch depth goes back by one, to the value it
\* had before the call; the exit of an inner batch notifies nobody and
\* leaves version and pending flag; the exit of the outermost batch
\* increments the version by one and invokes every subscriber once exactly
\* when a change is pending, and clears the flag; the depth is never
\* negative and at depth 0 no notification is pending.
C35_ThrowingBatchUnwinds ==
  /\ Depth >= 0
  /\ (Depth = 0 => ~Root.pendingNotification)
  /\ [][last'.op = "batchThrow" =>
          /\ last'.err = last.err
          /\ Depth' = Depth - 1
          /\ Root'.vars = Root.vars
          /\ Depth' > 0 =>
               /\ calls' = calls
               /\ Root'.version = Root.version
               /\ Root'.pendingNotification = Root.pendingNotification
          /\ Depth' = 0 =>
               /\ Root'.version = Root.version + (IF Root.pendingNotification THEN 1 ELSE 0)
               /\ \A cb \in Callbacks :
                    calls'[cb] = calls[cb] +
                      (IF Root.pendingNotification /\ Subscribed(cb) THEN 1 ELSE 0)]_vars

\* a statement changed a state variable and then raised inside two nested
\* batches; both batches were left by the exception and the subscriber was
\* notified once, at the outer exit
C35_Witness ==
  /\ last.op = "batchThrow" /\ last.err = "ScopeException" /\ Depth = 0
  /\ Root.version = 1 /\ Root.vars["isOn"] = Bool(TRUE) /\ initialVars["isOn"] = Bool(FALSE)
  /\ Subscribed("r") /\ calls["r"] = 1


\* ------------------------------------------------------------------------
\* What a subscriber reads when it is notified
\* ------------------------------------------------------------------------
\* the observations the callbacks made during the last operation
Seen == last.seen

\* the positions of seen at which callback cb was invoked
InvocationsOf(seen, cb) == {i \in 1..Len(seen) : seen[i].cb = cb}

\* C36: a subscriber invoked for a change of root state reads the state
\* after the mutation and a stateVersion already counted, greater than
\* any it read before; outside a batch it is invoked within the mutating
\* call, inside a batch within the exit of the outermost batch() and not
\* earlier
C36_NotifiedAfterMutation ==
  /\ \A i \in 1..Len(Seen) : Seen[i].version <= Root.version
  /\ [][/\ Notified =>
             /\ \A i \in 1..Len(Seen') :
                  /\ Seen'[i].state = Root'.vars
                  /\ Seen'[i].version = Root'.version
                  /\ \A j \in 1..Len(Seen) : Seen[j].version < Seen'[i].version
             /\ \A cb \in Callbacks :
                  Cardinality(InvocationsOf(Seen', cb))
                    = IF Subscribed(cb) THEN 1 ELSE 0
        /\ ~Notified => Seen' = <<>>
        /\ (Depth = 0 /\ Depth' = 0 /\ Root'.vars # Root.vars) => Notified
        /\ (Depth > 0 /\ Root'.vars # Root.vars) =>
             Root'.pendingNotification /\ Depth' > 0
        /\ (Depth = 1 /\ Depth' = 0 /\ Root.pendingNotification) => Notified
        /\ Depth' > 0 => ~Notified]_vars

\* the outermost batch() has returned after a second change of the root
\* state, and two subscribers have read the new state and version 2
C36_Witness ==
  /\ last.op = "batchExit" /\ Depth = 0 /\ Root.version = 2
  /\ Len(Seen) = 2 /\ Seen[1].cb # Seen[2].cb
  /\ \A i \in 1..2 : Seen[i].state = Root.vars /\ Seen[i].version = 2


\* ------------------------------------------------------------------------
\* The if statement
\* ------------------------------------------------------------------------
\* the values conditions are given
CondValues == {Bool(TRUE), Bool(FALSE), Num(0), Num(1), Str(""), Str("a")}

\* statements the host passes to evaluateStmt: if statements with and
\* without else, and calls of functions whose body is an if statement
IfPool ==
  {IfElse(Lit(v), <<Assign("foo", N1)>>, <<Assign("foo", N0)>>) : v \in CondValues}
    \cup {If(Lit(v), <<Assign("count", N1)>>) : v \in CondValues}
    \cup {CallS("pick", <<Lit(v), Lit(v)>>) : v \in CondValues}
    \cup {CallS("toggle", <<>>)}

EvaluateIf == EvaluateStmtWith(IfPool)

NextIf ==
  \/ Run
  \/ EvaluateIf
  \/ Step
  \/ HostSet

SpecIf == Init /\ [][NextIf]_vars

\* the values JavaScript converts to false, among CondValues
Falsy == {Bool(FALSE), Num(0), Str("")}

\* the statements an if statement has to run when its condition is v
Selected(stmt, v) ==
  IF v \notin Falsy THEN stmt.then
  ELSE IF stmt.hasElse THEN stmt.else ELSE <<>>

\* the body of pick is open in its own scope and its if statement is done
AfterIfOfPick ==
  /\ stack # <<>>
  /\ Head(stack).func = "pick"
  /\ Len(Head(stack).stmts) = 1

\* C37: an if statement raises no error for a condition of any type and
\* runs exactly the then-branch for a truthy condition, the else-branch
\* (if any) for false, 0 and ""; the branch runs in the scope of the if:
\* it reads and writes the parameters of the enclosing function, and a
\* name it creates is a variable of that scope after the if
C37_IfRunsBranchInScope ==
  /\ \A stmt \in IfPool :
       stmt.kind = "if" =>
         LET r == evaluateStmt(W, stmt, 1) IN
         /\ r.err = "" /\ r.w = W
         /\ r.push = IF Selected(stmt, stmt.cond.value) = <<>> THEN <<>>
                     ELSE <<Frame(Selected(stmt, stmt.cond.value), 1, "branch")>>
  /\ AfterIfOfPick =>
       LET v == scopes[Head(stack).scope].vars IN
       /\ Head(stack).scope # 1
       /\ HasOwn(v, "tmp") /\ ~HasOwn(Root.vars, "tmp") /\ ~HasOwn(Root.vars, "p")
       /\ IF v["q"] \in Falsy THEN v["tmp"] = Num(0) /\ v["p"] = v["q"]
                              ELSE v["tmp"] = Num(1) /\ v["p"] = Num(1)
  /\ [][(stack # <<>> /\ Head(Head(stack).stmts).kind = "if") =>
          LET top == Head(stack)
              stmt == Head(top.stmts)
              sel == Selected(stmt, evaluateExpr(stmt.cond, scopes, top.scope).val)
          IN /\ last'.err = ""
             /\ \A i \in 1..Len(scopes) : scopes'[i].vars = scopes[i].vars
             /\ IF sel # <<>>
                THEN /\ stack' # <<>>
                     /\ Head(stack') = Frame(sel, top.scope, "branch")
                     /\ Len(stack') = Len(stack) + 1
                ELSE Len(stack') <= Len(stack)]_vars
  /\ [][AfterIfOfPick =>
          /\ last'.err = ""
          /\ Root'.vars["count"] = scopes[Head(stack).scope].vars["tmp"]]_vars

\* pick("", "") has run its if statement: the else-branch created tmp in
\* the body's scope and left the parameter alone
C37_Witness ==
  /\ AfterIfOfPick
  /\ scopes[Head(stack).scope].vars["q"] = Str("")
  /\ scopes[Head(stack).scope].vars["p"] = Str("")
  /\ scopes[Head(stack).scope].vars["tmp"] = Num(0)


\* ------------------------------------------------------------------------
\* Operand evaluation of binary expressions
\* ------------------------------------------------------------------------
\* operands whose evaluation raises: an unknown variable, a type error, a
\* division by zero
RaisingExprs == {Var("q"), Bin("+", N1, Lit(Bool(TRUE))), Bin("/", N1, N0)}

\* operands that evaluate to a value
ValueExprs ==
  {N0, N1, Lit(Str("a")), Lit(Bool(TRUE)), Lit(Bool(FALSE)), Var("count"), Var("isOn")}

\* `false && e` and `true || e`, e raising or not
DecidedPool ==
  {Bin("&&", Lit(Bool(FALSE)), e) : e \in RaisingExprs \cup ValueExprs}
    \cup {Bin("||", Lit(Bool(TRUE)), e) : e \in RaisingExprs \cup ValueExprs}

EvaluateDecided == EvaluateExprWith(DecidedPool)

NextOperands ==
  \/ EvaluateDecided
  \/ Run
  \/ Step
  \/ HostSet
  \/ SetState
  \/ Destroy

SpecOperands == Init /\ [][NextOperands]_vars

\* the errors the operands in RaisingExprs raise
OperandErrors == {"ScopeException", "TypeError", "ExpressionError"}

\* C38: a binary expression evaluates its left operand, then its right
\* operand, then applies the operator, for every operator: an error of the
\* left operand is the expression's error, else an error of the right
\* operand is, also when the left operand of && is false or that of || is
\* true; and a right operand of && or || that is no boolean is a TypeError
C38_BothOperandsEvaluated ==
  /\ \A op \in BinOps, l \in RaisingExprs \cup ValueExprs, r \in RaisingExprs \cup ValueExprs :
       LET lv == evaluateExpr(l, scopes, 1)
           rv == evaluateExpr(r, scopes, 1)
           res == evaluateExpr(Bin(op, l, r), scopes, 1)
       IN /\ l \in RaisingExprs <=> lv.err \in OperandErrors
          /\ r \in RaisingExprs <=> rv.err \in OperandErrors
          /\ lv.err # "" => res.err = lv.err
          /\ (lv.err = "" /\ rv.err # "") => res.err = rv.err
          /\ (lv.err = "" /\ rv.err = "" /\ op \in {"&&", "||"} /\ rv.val.t # "boolean")
               => res.err = "TypeError"
  /\ evaluateExpr(Bin("&&", Lit(Bool(FALSE)), Var("q")), scopes, 1).err = "ScopeException"
  /\ evaluateExpr(Bin("||", Lit(Bool(TRUE)), Bin("/", N1, N0)), scopes, 1).err = "ExpressionError"
  /\ evaluateExpr(Bin("&&", Lit(Bool(FALSE)), N1), scopes, 1).err = "TypeError"
  /\ [][last'.op = "evaluateExpr" =>
          \/ last'.err \in OperandErrors
          \/ last'.err = "" /\ last'.val.t = "boolean"]_vars

\* the host evaluated `false && e` or `true || e` with an e that divides by
\* zero, and got e's error
C38_Witness ==
  /\ last.op = "evaluateExpr"
  /\ last.err = "ExpressionError"


\* ------------------------------------------------------------------------
\* The destroyed runtime
\* ------------------------------------------------------------------------
\* C39: a destroyed runtime stays destroyed under every operation, a second
\* destroy() and resetState() included; setState() and resetState() on it
\* raise the destroyed error and leave every variable, the version and
\* hasRun alone; operations that register or remove subscribers or destroy
\* again raise nothing and change no state; and no callback is invoked any
\* more, one registered after destroy() included
C39_DestroyIrreversible ==
  [][isDestroyed =>
       /\ isDestroyed'
       /\ last'.op \in {"setState", "resetState"} =>
            /\ last'.err = "DESTROYED"
            /\ scopes' = scopes
            /\ hasRun' = hasRun
       /\ last'.op \in {"host", "onChange", "unsubscribe"} =>
            /\ last'.err = ""
            /\ Root'.vars = Root.vars /\ Root'.version = Root.version
            /\ hasRun' = hasRun
       /\ \A cb \in Callbacks :
            /\ calls'[cb] = calls[cb]
            /\ Cardinality(InvocationsOf(Seen', cb)) = 0]_vars

\* resetState() on a destroyed runtime that had run and on which a callback
\* was registered after destroy(): the error, count and hasRun as they were
C39_Witness ==
  /\ isDestroyed /\ last.op = "resetState" /\ last.err = "DESTROYED"
  /\ hasRun /\ RootCount = Num(1)
  /\ Subscribed("s1") /\ calls["s1"] = 0


\* ------------------------------------------------------------------------
\* Subscriptions are keyed by the callback
\* ------------------------------------------------------------------------
\* the callbacks other than cb are subscribed after the step as before it
OthersKept(cb) ==
  SelectSeq(changeListeners', LAMBDA x : x # cb)
    = SelectSeq(changeListeners, LAMBDA x : x # cb)

\* C40: changeListeners holds a callback at most once: onChange(cb) for a
\* cb that is subscribed changes nothing, a notification invokes every
\* subscribed callback exactly once and no other, the function onChange
\* returned removes cb whatever number of times cb was registered, and
\* neither touches the subscriptions of the other callbacks
C40_KeyedByCallback ==
  /\ \A i, j \in 1..Len(changeListeners) :
       changeListeners[i] = changeListeners[j] => i = j
  /\ [][/\ last'.op = "onChange" =>
             \E cb \in Callbacks :
               /\ Subscribed(cb) => changeListeners' = changeListeners
               /\ ~Subscribed(cb) => changeListeners' = Append(changeListeners, cb)
               /\ OthersKept(cb)
        /\ last'.op = "unsubscribe" =>
             \E cb \in Callbacks :
               /\ \A i \in 1..Len(changeListeners') : changeListeners'[i] # cb
               /\ OthersKept(cb)
        /\ \A cb \in Callbacks :
             calls'[cb] - calls[cb] =
               IF Notified /\ Subscribed(cb) THEN 1 ELSE 0]_vars

\* onChange was called while its callback was the only one subscribed and
\* had been notified once, and it is still the only entry
C40_Witness ==
  /\ last.op = "onChange"
  /\ changeListeners = <<"r">>
  /\ calls["r"] = 1 /\ Root.version = 1

====
